---- MODULE Spec2Model ----
(***************************************************************************)
(* State-synchronisation core of the VELLA client:                         *)
(*   - WebSocketManager   (frontend/js/network/WebSocketManager.js)        *)
(*   - WorldGameManager   (frontend/js/world.js): entity reconciliation    *)
(*     and chunk streaming                                                 *)
(*   - the world message handlers of main.js (setupWorldHandlers)          *)
(*   - the touch DualJoystick and the keyboard read by sendInput           *)
(* The specifications share the variables:                                 *)
(*   SpecConn    connection life cycle of one WebSocketManager             *)
(*   SpecBus     on / off / emit and the inbound message callback          *)
(*   SpecEnt     updateState on the entity stores                          *)
(*   SpecCalls   updateState and single update calls                       *)
(*   SpecFrame   snapshots with positions and render frames                *)
(*   SpecInput   keyboard, touch and the input tick                        *)
(*   SpecLoads   chunk loads across manager creation and scene readiness   *)
(*   SpecStream  chunk loads and unloads                                   *)
(*   SpecReload  chunk loads and unloads on the ready scene                *)
(*   SpecBuild   one chunk, its building updates and its unload            *)
(*   SpecSync    snapshots on the ready scene, creations and removals      *)
(*   SpecTeardown  destroy() and what arrives around it                    *)
(*   SpecLoop    updateState in parts, frames and input ticks              *)
(*   SpecClose   'close' listeners and the reconnect policy                *)
(*   SpecLerp    render frames on one entity at a distance from its target *)
(*   SpecTouch   touch joysticks and the input tick                        *)
(*   SpecSeq     input ticks across reconnects                             *)
(*   SpecResident  resident chunks under every other operation             *)
(*   SpecEnter   enterWorld, reconnects and the server's world_entered     *)
(*   SpecApp     room and world transports of the application              *)
(*   SpecLatest  each chunk loaded once, and its building updates          *)
(*   SpecPartial snapshots that carry only some of the lists               *)
(*   SpecFingers several touches in one joystick zone                      *)
(*   SpecBase    pointer events on the base editor                         *)
(***************************************************************************)
EXTENDS Integers, Sequences, FiniteSets, TLC

\* ---------------------------------------------------------------- bounds
MaxSockets == 6      \* sockets one manager may create in a run
MaxExplicit == 2     \* explicit connect() calls in a run
MaxSends == 1        \* messages put on the wire in a run
MaxListeners == 2    \* registrations per event name

\* ------------------------------------------------------ program constants
maxReconnectAttempts == 5
reconnectDelay == 1000

\* -------------------------------------------------------------- variables
VARIABLES
    \* WebSocketManager fields
    ws,                 \* this.ws: 0 is null, otherwise the id of a socket
    socks,              \* readyState of every socket created by connect()
    timers,             \* delays of the pending setTimeout(connect) calls
    reconnectAttempts,  \* this.reconnectAttempts
    listeners,          \* this.listeners: event name -> callbacks in order
    wire,               \* what ws.send() has transmitted: <<socket, data>>
    \* observation of the last step
    lastOp,             \* [op, sock, arg] of the step just taken
    invoked,            \* callbacks run by the last step, in order
    emitted,            \* event names emitted by the last step, in order
    escaped,            \* an exception left the callback of the last step
    \* history
    explicitCalls,      \* explicit connect() calls so far
    disconnected,       \* disconnect() was called, no explicit connect() since
    schedSinceOpen,     \* reconnects scheduled since construction / last open
    \* window.VELLA and WorldGameManager fields
    worldGame,          \* window.VELLA.worldGame is set
    sceneReady,         \* this.sceneReady / this.scene, set by create()
    players,            \* this.players: key -> entity
    zombies,            \* this.zombies
    projectiles,        \* this.projectiles
    handles,            \* live (undestroyed) display objects of entities
    lastSnap,           \* the snapshot updateState handled last
    pendingWorldChunks, \* window.VELLA._pendingWorldChunks
    pendingChunks,      \* this.pendingChunks
    chunks,             \* this.chunks: key -> chunk
    turretBarrels,      \* this._turretBarrels: building id -> barrel
    gateSprites,        \* this._gateSprites: building id -> gate
    sprites,            \* live (undestroyed) display objects of chunks
    textures,           \* texture keys registered in scene.textures
    delivered,          \* history: load instructions received, in order
    unloaded,           \* history: keys whose last instruction was an unload
    \* input sampling of the WorldGameManager
    keys,               \* this.keys: the key codes whose entry is true
    joystick,           \* this.joystick: null or the DualJoystick
    aimAngle,           \* this.aimAngle
    lastAim,            \* this._lastAimX / this._lastAimY
    inputSeq,           \* this.inputSeq
    sentAim,            \* history: a command with a non-zero aim was sent
    \* life of the WorldGameManager
    game,               \* this.game: the Phaser game is set and running
    kbListening,        \* _onKeyDown / _onKeyUp are registered on window
    inputTimer,         \* the looping time event of create() exists
    groundDrops,        \* this.groundDrops: the ids of the drops shown
    orphans,            \* managers replaced in window.VELLA while still running
    \* the transports of the application (main.js)
    transports,         \* every WebSocketManager created: [sock, timer, attempts]
    current,            \* window.VELLA.ws: 0 is null, otherwise a transport
    sentOn,             \* sends of the 'open' listeners: [by, on]
    screen,             \* the screen shown: menu, lobby, gameover or world
    \* history of the server's messages
    sentBuildings,      \* chunk key -> the building list sent last for it
    \* the touch screen
    fingers,            \* identifiers of the touches held in each joystick zone
    \* BaseManager fields (base.js) and the document
    bmPending,          \* this._pending: 0 is null, otherwise the drag mode
    bmActive,           \* this._active: 0 is null, otherwise the drag mode
    ghosts              \* .drag-ghost elements in document.body

connVars == <<ws, socks, timers, reconnectAttempts, listeners, wire>>
obsVars == <<lastOp, invoked, emitted, escaped>>
histVars == <<explicitCalls, disconnected, schedSinceOpen>>
worldVars == <<worldGame, sceneReady, players, zombies, projectiles, handles,
               lastSnap, pendingWorldChunks, pendingChunks, chunks,
               turretBarrels, gateSprites, sprites, textures, delivered,
               unloaded, keys, joystick, aimAngle, lastAim, inputSeq, sentAim,
               game, kbListening, inputTimer, groundDrops, orphans>>
inputVars == <<keys, joystick, aimAngle, lastAim, inputSeq, sentAim>>
mgrVars == <<game, kbListening, inputTimer, groundDrops, orphans>>
transportVars == <<transports, current, sentOn, screen>>
baseVars == <<bmPending, bmActive, ghosts>>
appVars == <<transportVars, sentBuildings, fingers, baseVars>>
vars == <<connVars, obsVars, histVars, worldVars, appVars>>

\* ---------------------------------------------------------------- values
NULL == 0
Handlers == {"h1", "h2"}
EventNames == {"open", "world_state", "world_chunk_load"}
Datas == {"world_input"}
NoOp == [op |-> "none", sock |-> NULL, arg |-> "none"]

\* WebSocket.readyState of this.ws (only read when ws is not null)
ReadyState(s) == socks[s]

\* get isConnected / the test of connect() and send()
IsConnected == ws # NULL /\ ReadyState(ws) = "OPEN"

\* ------------------------------------------------------------------ emit
\* emit(event, data): listeners[event].forEach(cb => cb(data)).  bad is the
\* set of callbacks that throw in this run; forEach stops at the first one.
RECURSIVE RunCallbacks(_, _)
RunCallbacks(cbs, bad) ==
    IF cbs = <<>> THEN [ran |-> <<>>, threw |-> FALSE]
    ELSE IF Head(cbs) \in bad THEN [ran |-> <<Head(cbs)>>, threw |-> TRUE]
    ELSE LET rest == RunCallbacks(Tail(cbs), bad)
         IN [ran |-> <<Head(cbs)>> \o rest.ran, threw |-> rest.threw]

Emit(event, bad) ==
    IF event \in DOMAIN listeners
    THEN RunCallbacks(listeners[event], bad)
    ELSE [ran |-> <<>>, threw |-> FALSE]

\* the callbacks registered for event (only these can throw in an emit)
Registered(event) ==
    IF event \in DOMAIN listeners
    THEN {listeners[event][i] : i \in 1..Len(listeners[event])}
    ELSE {}

Tagged(event, ran) == [i \in 1..Len(ran) |-> [event |-> event, cb |-> ran[i]]]

\* --------------------------------------------------------------- connect
\* connect(): returns at once when this.ws is OPEN, otherwise creates a
\* socket, stores it in this.ws and attaches the four callbacks to it.
ConnectBody ==
    IF IsConnected
    THEN UNCHANGED <<ws, socks>>
    ELSE /\ socks' = Append(socks, "CONNECTING")
         /\ ws' = Len(socks) + 1

\* an explicit call of connect() by the application
Connect ==
    /\ Len(socks) < MaxSockets
    /\ explicitCalls < MaxExplicit
    /\ ConnectBody
    /\ explicitCalls' = explicitCalls + 1
    /\ disconnected' = FALSE
    /\ UNCHANGED appVars
    /\ lastOp' = [op |-> "connect", sock |-> IF IsConnected THEN NULL ELSE ws', arg |-> "explicit"]
    /\ invoked' = <<>> /\ emitted' = <<>> /\ escaped' = FALSE
    /\ UNCHANGED <<timers, reconnectAttempts, listeners, wire, schedSinceOpen, worldVars>>

\* setTimeout(() => this.connect(), ...) fires
TimerFire ==
    /\ Len(socks) < MaxSockets
    /\ \E i \in 1..Len(timers) :
          timers' = [j \in 1..(Len(timers) - 1) |-> IF j < i THEN timers[j] ELSE timers[j + 1]]
    /\ ConnectBody
    /\ UNCHANGED appVars
    /\ lastOp' = [op |-> "connect", sock |-> IF IsConnected THEN NULL ELSE ws', arg |-> "timer"]
    /\ invoked' = <<>> /\ emitted' = <<>> /\ escaped' = FALSE
    /\ UNCHANGED <<reconnectAttempts, listeners, wire, histVars, worldVars>>

\* ws.onopen
SockOpen ==
    \E s \in 1..Len(socks), bad \in SUBSET Registered("open") :
      /\ socks[s] = "CONNECTING"
      /\ socks' = [socks EXCEPT ![s] = "OPEN"]
      /\ reconnectAttempts' = 0
      /\ LET r == Emit("open", bad)
         IN /\ invoked' = Tagged("open", r.ran)
            /\ escaped' = r.threw
      /\ emitted' = <<"open">>
      /\ schedSinceOpen' = 0
      /\ UNCHANGED appVars
      /\ lastOp' = [op |-> "onopen", sock |-> NULL, arg |-> "none"]
      /\ UNCHANGED <<ws, timers, listeners, wire, explicitCalls, disconnected, worldVars>>

\* variant: the bound is tested with <= (one attempt too many)
ShouldReconnectOffByOne == reconnectAttempts <= maxReconnectAttempts

\* the test of onclose that decides on a reconnect
ShouldReconnect == reconnectAttempts < maxReconnectAttempts

\* variant: every reconnect is scheduled with the base delay
SockCloseFlatDelay ==
    \E s \in 1..Len(socks), bad \in SUBSET Registered("close") :
      /\ socks[s] \in {"CONNECTING", "OPEN", "CLOSING"}
      /\ socks' = [socks EXCEPT ![s] = "CLOSED"]
      /\ LET r == Emit("close", bad)
         IN /\ invoked' = Tagged("close", r.ran)
            /\ escaped' = r.threw
            /\ IF ~r.threw /\ ShouldReconnect
               THEN /\ reconnectAttempts' = reconnectAttempts + 1
                    /\ timers' = Append(timers, reconnectDelay)
                    /\ schedSinceOpen' = schedSinceOpen + 1
               ELSE UNCHANGED <<reconnectAttempts, timers, schedSinceOpen>>
      /\ emitted' = <<"close">>
      /\ UNCHANGED appVars
      /\ lastOp' = [op |-> "onclose", sock |-> NULL, arg |-> "none"]
      /\ UNCHANGED <<ws, listeners, wire, explicitCalls, disconnected, worldVars>>

\* ws.onclose: emit('close'), then the auto-reconnect block (skipped when a
\* 'close' callback threw)
SockClose ==
    \E s \in 1..Len(socks), bad \in SUBSET Registered("close") :
      /\ socks[s] \in {"CONNECTING", "OPEN", "CLOSING"}
      /\ socks' = [socks EXCEPT ![s] = "CLOSED"]
      /\ LET r == Emit("close", bad)
         IN /\ invoked' = Tagged("close", r.ran)
            /\ escaped' = r.threw
            /\ IF ~r.threw /\ ShouldReconnect
               THEN /\ reconnectAttempts' = reconnectAttempts + 1
                    /\ timers' = Append(timers, reconnectDelay * (reconnectAttempts + 1))
                    /\ schedSinceOpen' = schedSinceOpen + 1
               ELSE UNCHANGED <<reconnectAttempts, timers, schedSinceOpen>>
      /\ emitted' = <<"close">>
      /\ UNCHANGED appVars
      /\ lastOp' = [op |-> "onclose", sock |-> NULL, arg |-> "none"]
      /\ UNCHANGED <<ws, listeners, wire, explicitCalls, disconnected, worldVars>>

\* ws.onerror
SockError ==
    \E s \in 1..Len(socks), bad \in SUBSET Registered("error") :
      /\ socks[s] \in {"CONNECTING", "OPEN", "CLOSING"}
      /\ LET r == Emit("error", bad)
         IN /\ invoked' = Tagged("error", r.ran)
            /\ escaped' = r.threw
      /\ emitted' = <<"error">>
      /\ UNCHANGED appVars
      /\ lastOp' = [op |-> "onerror", sock |-> NULL, arg |-> "none"]
      /\ UNCHANGED <<connVars, histVars, worldVars>>

\* WebSocket.close() as the browser performs it on a socket
CloseCall(s) ==
    IF socks[s] \in {"CONNECTING", "OPEN"} THEN [socks EXCEPT ![s] = "CLOSING"] ELSE socks

\* variant: disconnect() leaves the counter as it is
DisconnectKeepAttempts ==
    /\ UNCHANGED reconnectAttempts
    /\ IF ws # NULL
       THEN /\ socks' = CloseCall(ws)
            /\ ws' = NULL
       ELSE UNCHANGED <<ws, socks>>
    /\ disconnected' = TRUE
    /\ UNCHANGED appVars
    /\ lastOp' = [op |-> "disconnect", sock |-> NULL, arg |-> "none"]
    /\ invoked' = <<>> /\ emitted' = <<>> /\ escaped' = FALSE
    /\ UNCHANGED <<timers, listeners, wire, explicitCalls, schedSinceOpen, worldVars>>

\* disconnect()
Disconnect ==
    /\ reconnectAttempts' = maxReconnectAttempts
    /\ IF ws # NULL
       THEN /\ socks' = CloseCall(ws)
            /\ ws' = NULL
       ELSE UNCHANGED <<ws, socks>>
    /\ disconnected' = TRUE
    /\ UNCHANGED appVars
    /\ lastOp' = [op |-> "disconnect", sock |-> NULL, arg |-> "none"]
    /\ invoked' = <<>> /\ emitted' = <<>> /\ escaped' = FALSE
    /\ UNCHANGED <<timers, listeners, wire, explicitCalls, schedSinceOpen, worldVars>>

\* variant: send() also writes to a socket that is still connecting
MaySendWhileConnecting == ws # NULL /\ ReadyState(ws) \in {"OPEN", "CONNECTING"}

\* the test of send()
MaySend == ws # NULL /\ ReadyState(ws) = "OPEN"

\* send(data)
Send ==
    \E d \in Datas :
      /\ MaySend => Len(wire) < MaxSends
      /\ IF MaySend
         THEN wire' = Append(wire, <<ws, d>>)
         ELSE UNCHANGED wire
      /\ UNCHANGED appVars
      /\ lastOp' = [op |-> "send", sock |-> NULL, arg |-> d]
      /\ invoked' = <<>> /\ emitted' = <<>> /\ escaped' = FALSE
      /\ UNCHANGED <<ws, socks, timers, reconnectAttempts, listeners, histVars, worldVars>>

\* ------------------------------------------------------------- on / off
\* on(event, callback)
On ==
    \E e \in EventNames, cb \in Handlers :
      /\ (e \in DOMAIN listeners) => Len(listeners[e]) < MaxListeners
      /\ listeners' = [x \in DOMAIN listeners \cup {e} |->
                         IF x = e
                         THEN Append(IF e \in DOMAIN listeners THEN listeners[e] ELSE <<>>, cb)
                         ELSE listeners[x]]
      /\ UNCHANGED appVars
      /\ lastOp' = [op |-> "on", sock |-> NULL, arg |-> e]
      /\ invoked' = <<>> /\ emitted' = <<>> /\ escaped' = FALSE
      /\ UNCHANGED <<ws, socks, timers, reconnectAttempts, wire, histVars, worldVars>>

\* on('close', callback), as enterWorld and the other screens register it
OnClose ==
    \E cb \in Handlers :
      /\ ("close" \in DOMAIN listeners) => Len(listeners["close"]) < MaxListeners
      /\ listeners' = [x \in DOMAIN listeners \cup {"close"} |->
                         IF x = "close"
                         THEN Append(IF "close" \in DOMAIN listeners
                                     THEN listeners["close"] ELSE <<>>, cb)
                         ELSE listeners[x]]
      /\ UNCHANGED appVars
      /\ lastOp' = [op |-> "on", sock |-> NULL, arg |-> "close"]
      /\ invoked' = <<>> /\ emitted' = <<>> /\ escaped' = FALSE
      /\ UNCHANGED <<ws, socks, timers, reconnectAttempts, wire, histVars, worldVars>>

\* Array.prototype.filter(cb => cb !== callback)
RECURSIVE Without(_, _)
Without(cbs, cb) ==
    IF cbs = <<>> THEN <<>>
    ELSE IF Head(cbs) = cb THEN Without(Tail(cbs), cb)
    ELSE <<Head(cbs)>> \o Without(Tail(cbs), cb)

\* off(event, callback)
Off ==
    \E e \in EventNames, cb \in Handlers :
      /\ IF e \in DOMAIN listeners
         THEN listeners' = [listeners EXCEPT ![e] = Without(listeners[e], cb)]
         ELSE UNCHANGED listeners
      /\ UNCHANGED appVars
      /\ lastOp' = [op |-> "off", sock |-> NULL, arg |-> e]
      /\ invoked' = <<>> /\ emitted' = <<>> /\ escaped' = FALSE
      /\ UNCHANGED <<ws, socks, timers, reconnectAttempts, wire, histVars, worldVars>>

\* ------------------------------------------------------------ onmessage
\* inbound payloads (event.data) and what JSON.parse makes of them
Payloads == {"{\"type\":\"world_state\"}", "{\"type\":\"world_chunk_load\"}",
             "{\"type\":\"open\"}", "{}", "null", "{\"type\":"}

JSONParse(p) ==
    CASE p = "{\"type\":\"world_state\"}" -> [ok |-> TRUE, isNull |-> FALSE, type |-> "world_state"]
      [] p = "{\"type\":\"world_chunk_load\"}" -> [ok |-> TRUE, isNull |-> FALSE, type |-> "world_chunk_load"]
      [] p = "{\"type\":\"open\"}" -> [ok |-> TRUE, isNull |-> FALSE, type |-> "open"]
      [] p = "{}" -> [ok |-> TRUE, isNull |-> FALSE, type |-> "undefined"]
      [] p = "null" -> [ok |-> TRUE, isNull |-> TRUE, type |-> "undefined"]
      [] OTHER -> [ok |-> FALSE, isNull |-> FALSE, type |-> "undefined"]

\* variant: no try / catch around JSON.parse
DispatchNoCatch(p, bad) ==
    LET r == JSONParse(p)
    IN IF ~r.ok \/ r.isNull
       THEN [invoked |-> <<>>, emitted |-> <<>>, escaped |-> TRUE]
       ELSE [invoked |-> Tagged(r.type, Emit(r.type, bad).ran),
             emitted |-> <<r.type>>, escaped |-> Emit(r.type, bad).threw]

\* the body of ws.onmessage: try { data = JSON.parse(event.data);
\* this.emit(data.type, data) } catch { console.error }
Dispatch(p, bad) ==
    LET r == JSONParse(p)
    IN IF ~r.ok \/ r.isNull
       THEN [invoked |-> <<>>, emitted |-> <<>>, escaped |-> FALSE]
       ELSE [invoked |-> Tagged(r.type, Emit(r.type, bad).ran),
             emitted |-> <<r.type>>, escaped |-> FALSE]

\* ws.onmessage
Message ==
    \E s \in 1..Len(socks), p \in Payloads, bad \in SUBSET Handlers :
      /\ socks[s] = "OPEN"
      /\ LET d == Dispatch(p, bad)
         IN /\ invoked' = d.invoked
            /\ emitted' = d.emitted
            /\ escaped' = d.escaped
      /\ UNCHANGED appVars
      /\ lastOp' = [op |-> "onmessage", sock |-> s, arg |-> p]
      /\ UNCHANGED <<connVars, histVars, worldVars>>

\* ============================================================= entities
\* window.VELLA.player.id
myId == 7

\* object keys: a property name is the decimal text of the id
RECURSIVE ToKey(_)
ToKey(n) == IF n < 10 THEN <<n>> ELSE ToKey(n \div 10) \o <<n % 10>>

\* parseInt(key)
RECURSIVE ParseInt(_)
ParseInt(k) ==
    IF Len(k) = 1 THEN k[1]
    ELSE 10 * ParseInt(SubSeq(k, 1, Len(k) - 1)) + k[Len(k)]

\* obj[key] = value / delete obj[key]
Put(obj, key, value) == [x \in DOMAIN obj \cup {key} |-> IF x = key THEN value ELSE obj[x]]
Delete(obj, key) == [x \in DOMAIN obj \ {key} |-> obj[x]]

\* scene.add.*(...) creates a display object, destroy() releases it
Handle(class, id, kind) == [class |-> class, id |-> id, kind |-> kind]
Created(live, h) == Put(live, h, IF h \in DOMAIN live THEN live[h] + 1 ELSE 1)
Destroyed(live, h) ==
    IF h \in DOMAIN live
    THEN IF live[h] = 1 THEN Delete(live, h) ELSE [live EXCEPT ![h] = live[h] - 1]
    ELSE live

RECURSIVE CreatedAll(_, _)
CreatedAll(live, hs) ==
    IF hs = <<>> THEN live ELSE CreatedAll(Created(live, Head(hs)), Tail(hs))

RECURSIVE DestroyedAll(_, _)
DestroyedAll(live, hs) ==
    IF hs = <<>> THEN live ELSE DestroyedAll(Destroyed(live, Head(hs)), Tail(hs))

\* createPlayer(data): st is [store, live]
CreatePlayer(st, data) ==
    [store |-> Put(st.store, ToKey(data.id),
                   [spriteX |-> data.x, armorRing |-> FALSE, data |-> data,
                    targetX |-> data.x]),
     live |-> CreatedAll(st.live, <<Handle("player", data.id, "sprite"),
                                   Handle("player", data.id, "aimLine"),
                                   Handle("player", data.id, "nameText"),
                                   Handle("player", data.id, "healthBar")>>)]

\* updatePlayer(data)
UpdatePlayer(st, data) ==
    IF ToKey(data.id) \notin DOMAIN st.store THEN st
    ELSE LET player == st.store[ToKey(data.id)]
             ring == data.armor > 0 /\ ~data.is_dead
             newRing == ring /\ ~player.armorRing
         IN [store |-> Put(st.store, ToKey(data.id),
                           [player EXCEPT !.targetX = data.x,
                                          !.armorRing = player.armorRing \/ ring,
                                          !.data = data]),
             live |-> IF newRing
                      THEN Created(st.live, Handle("player", data.id, "armorRing"))
                      ELSE st.live]

\* variant: the armor ring is not destroyed with the player
RemovePlayerKeepRing(st, id) ==
    IF ToKey(id) \notin DOMAIN st.store THEN st
    ELSE [store |-> Delete(st.store, ToKey(id)),
          live |-> DestroyedAll(st.live,
                      <<Handle("player", id, "sprite"), Handle("player", id, "nameText"),
                        Handle("player", id, "healthBar"), Handle("player", id, "aimLine")>>)]

\* removePlayer(id)
RemovePlayer(st, id) ==
    IF ToKey(id) \notin DOMAIN st.store THEN st
    ELSE LET player == st.store[ToKey(id)]
         IN [store |-> Delete(st.store, ToKey(id)),
             live |-> DestroyedAll(st.live,
                         <<Handle("player", id, "sprite"), Handle("player", id, "nameText"),
                           Handle("player", id, "healthBar"), Handle("player", id, "aimLine")>>
                         \o (IF player.armorRing
                             THEN <<Handle("player", id, "armorRing")>> ELSE <<>>))]

\* createZombie(data)
CreateZombie(st, data) ==
    LET bar == data.type \in {"tank", "boss"}
        displaySize == CASE data.type = "normal" -> 48 [] data.type = "fast" -> 44
                         [] data.type = "tank" -> 64 [] data.type = "boss" -> 80
                         [] OTHER -> 48
    IN [store |-> Put(st.store, ToKey(data.id),
                      [spriteX |-> data.x, indicator |-> TRUE, healthBar |-> bar,
                       data |-> data, size |-> displaySize \div 2, targetX |-> data.x]),
        live |-> CreatedAll(st.live,
                    <<Handle("zombie", data.id, "indicator"), Handle("zombie", data.id, "sprite")>>
                    \o (IF bar THEN <<Handle("zombie", data.id, "healthBar")>> ELSE <<>>))]

\* updateZombie(data)
UpdateZombie(st, data) ==
    IF ToKey(data.id) \notin DOMAIN st.store THEN CreateZombie(st, data)
    ELSE [store |-> Put(st.store, ToKey(data.id),
                        [st.store[ToKey(data.id)] EXCEPT !.targetX = data.x, !.data = data]),
          live |-> st.live]

\* removeZombie(id)
RemoveZombie(st, id) ==
    IF ToKey(id) \notin DOMAIN st.store THEN st
    ELSE LET zombie == st.store[ToKey(id)]
         IN [store |-> Delete(st.store, ToKey(id)),
             live |-> DestroyedAll(st.live,
                         <<Handle("zombie", id, "sprite")>>
                         \o (IF zombie.indicator
                             THEN <<Handle("zombie", id, "indicator")>> ELSE <<>>)
                         \o (IF zombie.healthBar
                             THEN <<Handle("zombie", id, "healthBar")>> ELSE <<>>))]

\* createProjectile(data)
CreateProjectile(st, data) ==
    [store |-> Put(st.store, ToKey(data.id), [spriteX |-> data.x, data |-> data]),
     live |-> Created(st.live, Handle("projectile", data.id, "sprite"))]

\* updateProjectile(data)
UpdateProjectile(st, data) ==
    IF ToKey(data.id) \notin DOMAIN st.store THEN st
    ELSE [store |-> Put(st.store, ToKey(data.id),
                        [st.store[ToKey(data.id)] EXCEPT !.spriteX = data.x, !.data = data]),
          live |-> st.live]

\* removeProjectile(id)
RemoveProjectile(st, id) ==
    IF ToKey(id) \notin DOMAIN st.store THEN st
    ELSE [store |-> Delete(st.store, ToKey(id)),
          live |-> Destroyed(st.live, Handle("projectile", id, "sprite"))]

Create(class, st, data) ==
    CASE class = "player" -> CreatePlayer(st, data)
      [] class = "zombie" -> CreateZombie(st, data)
      [] OTHER -> CreateProjectile(st, data)

Update(class, st, data) ==
    CASE class = "player" -> UpdatePlayer(st, data)
      [] class = "zombie" -> UpdateZombie(st, data)
      [] OTHER -> UpdateProjectile(st, data)

Remove(class, st, id) ==
    CASE class = "player" -> RemovePlayer(st, id)
      [] class = "zombie" -> RemoveZombie(st, id)
      [] OTHER -> RemoveProjectile(st, id)

\* for (const d of list) { if (store[d.id]) update(d) else create(d) }
RECURSIVE UpsertAll(_, _, _)
UpsertAll(class, st, list) ==
    IF list = <<>> THEN st
    ELSE UpsertAll(class,
                   IF ToKey(Head(list).id) \in DOMAIN st.store
                   THEN Update(class, st, Head(list))
                   ELSE Create(class, st, Head(list)),
                   Tail(list))

\* new Set(list.map(e => e.id))
ActiveIds(list) == {list[i].id : i \in 1..Len(list)}

\* variant: the key is tested without parseInt; a Set of numbers never has
\* a string, so every key counts as absent
AbsentNoParse(key, active) == TRUE

\* !activeIds.has(parseInt(id))
Absent(key, active) == ParseInt(key) \notin active

\* for (const id of Object.keys(store)) if (absent) remove(parseInt(id))
RECURSIVE RemoveAll(_, _, _)
RemoveAll(class, st, ids) ==
    IF ids = {} THEN st
    ELSE LET k == CHOOSE x \in ids : TRUE
         IN RemoveAll(class, Remove(class, st, ParseInt(k)), ids \ {k})

Reconcile(class, st, list) ==
    LET up == UpsertAll(class, st, list)
    IN RemoveAll(class, up, {k \in DOMAIN up.store : Absent(k, ActiveIds(list))})

\* the calls updateState makes for one class, in the order it makes them:
\* the loop over the list, then the loop over Object.keys(store), which
\* lists integer keys in ascending order
RECURSIVE UpsertTrace(_, _, _)
UpsertTrace(class, st, list) ==
    IF list = <<>> THEN <<>>
    ELSE LET data == Head(list)
             known == ToKey(data.id) \in DOMAIN st.store
         IN <<[op |-> IF known THEN "update" ELSE "create", id |-> data.id, data |-> data]>>
            \o UpsertTrace(class,
                           IF known THEN Update(class, st, data) ELSE Create(class, st, data),
                           Tail(list))

RECURSIVE RemoveTrace(_, _)
RemoveTrace(ids, active) ==
    IF ids = {} THEN <<>>
    ELSE LET n == CHOOSE x \in ids : \A y \in ids : x <= y
         IN (IF Absent(ToKey(n), active)
             THEN <<[op |-> "remove", id |-> n, data |-> "none"]>> ELSE <<>>)
            \o RemoveTrace(ids \ {n}, active)

\* variant: the removal loop runs before the loop over the list
ReconcileTraceRemoveFirst(class, st, list) ==
    RemoveTrace({ParseInt(k) : k \in DOMAIN st.store}, ActiveIds(list))
    \o UpsertTrace(class, st, list)

ReconcileTrace(class, st, list) ==
    UpsertTrace(class, st, list)
    \o RemoveTrace({ParseInt(k) : k \in DOMAIN UpsertAll(class, st, list).store},
                   ActiveIds(list))

\* the store after the calls of a trace
RECURSIVE Replay(_, _, _)
Replay(class, st, tr) ==
    IF tr = <<>> THEN st
    ELSE Replay(class,
                CASE Head(tr).op = "create" -> Create(class, st, Head(tr).data)
                  [] Head(tr).op = "update" -> Update(class, st, Head(tr).data)
                  [] OTHER -> Remove(class, st, Head(tr).id),
                Tail(tr))

\* updateState(state): players, then zombies, then projectiles
UpdateState(state) ==
    IF ~sceneReady
    THEN UNCHANGED <<players, zombies, projectiles, handles, lastSnap>>
    ELSE LET p == Reconcile("player", [store |-> players, live |-> handles], state.players)
             z == Reconcile("zombie", [store |-> zombies, live |-> p.live], state.zombies)
             q == Reconcile("projectile", [store |-> projectiles, live |-> z.live],
                            state.projectiles)
         IN /\ players' = p.store
            /\ zombies' = z.store
            /\ projectiles' = q.store
            /\ handles' = q.live
            /\ lastSnap' = [players |-> ActiveIds(state.players),
                            zombies |-> ActiveIds(state.zombies),
                            projectiles |-> ActiveIds(state.projectiles)]

\* observation: what the call removes ("ring": a player that had an armor
\* ring, "some": another entity, "none")
Removal(state) ==
    IF \E k \in DOMAIN players : ParseInt(k) \notin ActiveIds(state.players) /\ players[k].armorRing
    THEN "ring"
    ELSE IF \/ \E k \in DOMAIN players : ParseInt(k) \notin ActiveIds(state.players)
            \/ \E k \in DOMAIN zombies : ParseInt(k) \notin ActiveIds(state.zombies)
            \/ \E k \in DOMAIN projectiles : ParseInt(k) \notin ActiveIds(state.projectiles)
    THEN "some"
    ELSE "none"

\* -------------------------------------------------- snapshots (samples)
MaxSnap == 2        \* entities in one snapshot, all classes together
SnapshotIds == {7, 12}
PlayerDatas == [id : SnapshotIds, x : {0}, armor : {0, 1}, is_dead : {FALSE}]
ZombieDatas == {[id |-> 7, x |-> 0, type |-> "normal"], [id |-> 12, x |-> 0, type |-> "tank"]}
ProjectileDatas == [id : SnapshotIds, x : {0}]

\* the 'world_state' handler of setupWorldHandlers
MsgWorldState ==
    \E np \in 0..MaxSnap :
      \E nz \in 0..(MaxSnap - np) :
        \E nq \in 0..(MaxSnap - np - nz) :
          \E pl \in [1..np -> PlayerDatas], zl \in [1..nz -> ZombieDatas],
             ql \in [1..nq -> ProjectileDatas] :
            /\ IF worldGame
               THEN UpdateState([players |-> pl, zombies |-> zl, projectiles |-> ql])
               ELSE UNCHANGED <<players, zombies, projectiles, handles, lastSnap>>
            /\ UNCHANGED appVars
            /\ lastOp' = [op |-> "world_state", sock |-> NULL,
                          arg |-> IF worldGame /\ sceneReady
                                  THEN Removal([players |-> pl, zombies |-> zl,
                                                projectiles |-> ql])
                                  ELSE "none"]
            /\ invoked' = <<>> /\ emitted' = <<>> /\ escaped' = FALSE
            /\ UNCHANGED <<connVars, histVars, inputVars, mgrVars, worldGame, sceneReady, pendingWorldChunks,
                           pendingChunks, chunks, turretBarrels, gateSprites, sprites,
                           textures, delivered, unloaded>>

\* a call of updatePlayer(data), updateZombie(data) or updateProjectile(data)
\* on the manager of the ready scene
CallUpdate ==
    \E class \in {"player", "zombie", "projectile"} :
      \E data \in (CASE class = "player" -> PlayerDatas
                     [] class = "zombie" -> ZombieDatas
                     [] OTHER -> ProjectileDatas) :
        /\ worldGame
        /\ sceneReady
        /\ LET st == Update(class,
                            [store |-> CASE class = "player" -> players
                                         [] class = "zombie" -> zombies
                                         [] OTHER -> projectiles,
                             live |-> handles],
                            data)
           IN /\ players' = IF class = "player" THEN st.store ELSE players
              /\ zombies' = IF class = "zombie" THEN st.store ELSE zombies
              /\ projectiles' = IF class = "projectile" THEN st.store ELSE projectiles
              /\ handles' = st.live
        /\ UNCHANGED appVars
        /\ lastOp' = [op |-> "updateEntity", sock |-> NULL,
                      arg |-> [class |-> class, id |-> data.id]]
        /\ invoked' = <<>> /\ emitted' = <<>> /\ escaped' = FALSE
        /\ UNCHANGED <<connVars, histVars, inputVars, mgrVars, worldGame, sceneReady,
                       pendingWorldChunks, pendingChunks, chunks, turretBarrels,
                       gateSprites, sprites, textures, delivered, unloaded, lastSnap>>

\* ------------------------------------------------------- render frames
\* variant: the step is the whole difference and the fraction t of it more
LinearPast(p0, p1, t) == p0 + ((p1 - p0) * (t + 100)) \div 100

\* Phaser.Math.Linear(p0, p1, t) = p0 + (p1 - p0) * t, with t in hundredths
\* and positions in whole world units (the fraction of a unit is dropped)
Linear(p0, p1, t) == p0 + ((p1 - p0) * t) \div 100

\* update(): const me = this.players[this.myId];
\* if (me && me.targetX !== undefined) { ...step every player... }
PlayersStepped == ToKey(myId) \in DOMAIN players

\* update(time, delta): one render frame
Frame ==
    /\ worldGame /\ sceneReady /\ game
    /\ players' = IF PlayersStepped
                  THEN [k \in DOMAIN players |->
                          [players[k] EXCEPT !.spriteX = Linear(@, players[k].targetX, 20)]]
                  ELSE players
    /\ zombies' = [k \in DOMAIN zombies |->
                     [zombies[k] EXCEPT !.spriteX = Linear(@, zombies[k].targetX, 15)]]
    /\ UNCHANGED appVars
    /\ lastOp' = [op |-> "update", sock |-> NULL, arg |-> "none"]
    /\ invoked' = <<>> /\ emitted' = <<>> /\ escaped' = FALSE
    /\ UNCHANGED <<connVars, histVars, inputVars, mgrVars, worldGame, sceneReady, projectiles, handles, lastSnap,
                   pendingWorldChunks, pendingChunks, chunks, turretBarrels, gateSprites,
                   sprites, textures, delivered, unloaded>>

\* snapshots with positions (samples): at most one zombie and one
\* projectile, the own player and / or another player
FramePositions == {0, 10}
FramePlayerLists ==
    {<<>>}
    \cup {<<p>> : p \in [id : SnapshotIds, x : FramePositions, armor : {0, 1}, is_dead : {FALSE}]}
    \cup {<<[id |-> 7, x |-> 0, armor |-> 0, is_dead |-> FALSE],
            [id |-> 12, x |-> x, armor |-> 0, is_dead |-> FALSE]>> : x \in FramePositions}
FrameZombieLists ==
    {<<>>} \cup {<<[id |-> 7, x |-> x, type |-> "normal"]>> : x \in FramePositions}
FrameProjectileLists ==
    {<<>>} \cup {<<[id |-> 7, x |-> x]>> : x \in FramePositions}

\* the 'world_state' handler on a snapshot with positions; the observation
\* keeps the snapshot handled
MsgWorldStateAt ==
    \E pl \in FramePlayerLists, zl \in FrameZombieLists, ql \in FrameProjectileLists :
      /\ Len(pl) + Len(zl) + Len(ql) <= MaxSnap
      /\ IF worldGame
         THEN UpdateState([players |-> pl, zombies |-> zl, projectiles |-> ql])
         ELSE UNCHANGED <<players, zombies, projectiles, handles, lastSnap>>
      /\ UNCHANGED appVars
      /\ lastOp' = [op |-> "world_state", sock |-> NULL,
                    arg |-> [players |-> pl, zombies |-> zl, projectiles |-> ql,
                             removal |-> IF worldGame /\ sceneReady
                                         THEN Removal([players |-> pl, zombies |-> zl,
                                                       projectiles |-> ql])
                                         ELSE "none"]]
      /\ invoked' = <<>> /\ emitted' = <<>> /\ escaped' = FALSE
      /\ UNCHANGED <<connVars, histVars, inputVars, mgrVars, worldGame, sceneReady, pendingWorldChunks,
                     pendingChunks, chunks, turretBarrels, gateSprites, sprites,
                     textures, delivered, unloaded>>

\* ------------------------------------------------------ the event loop
\* updateState in three parts, one per class, to tell which part of a
\* snapshot a step of the loop could see. The parts are plain calls made
\* one after the other by onmessage -> emit -> the 'world_state' handler ->
\* updateState, with no await and no timer between them: while a part is
\* still to come the handler is on the stack.
RunningNever == FALSE

Running == lastOp.op = "updateState" /\ lastOp.arg.phase # "done"

PartStep(phase, state) ==
    /\ UNCHANGED appVars
    /\ lastOp' = [op |-> "updateState", sock |-> NULL,
                  arg |-> [phase |-> phase, state |-> state]]
    /\ invoked' = <<>> /\ emitted' = <<>> /\ escaped' = FALSE
    /\ UNCHANGED <<connVars, histVars, inputVars, mgrVars, worldGame, sceneReady,
                   pendingWorldChunks, pendingChunks, chunks, turretBarrels, gateSprites,
                   sprites, textures, delivered, unloaded>>

\* snapshots (samples) with entities in one, two and three classes
LoopStates ==
    {[players |-> <<>>, zombies |-> <<>>, projectiles |-> <<>>],
     [players |-> <<[id |-> 7, x |-> 10, armor |-> 0, is_dead |-> FALSE]>>,
      zombies |-> <<[id |-> 7, x |-> 0, type |-> "normal"]>>, projectiles |-> <<>>],
     [players |-> <<[id |-> 12, x |-> 0, armor |-> 1, is_dead |-> FALSE]>>,
      zombies |-> <<>>, projectiles |-> <<[id |-> 7, x |-> 10]>>],
     [players |-> <<[id |-> 7, x |-> 0, armor |-> 0, is_dead |-> FALSE]>>,
      zombies |-> <<[id |-> 12, x |-> 10, type |-> "normal"]>>,
      projectiles |-> <<[id |-> 12, x |-> 0]>>]}

\* a snapshot arrives: the players' part
UpdateStatePlayers ==
    \E state \in LoopStates :
     LET pl == state.players
         zl == state.zombies
         ql == state.projectiles
     IN
      /\ worldGame /\ sceneReady
      /\ ~Running
      /\ LET p == Reconcile("player", [store |-> players, live |-> handles], pl)
         IN players' = p.store /\ handles' = p.live
      /\ lastSnap' = [players |-> ActiveIds(pl), zombies |-> ActiveIds(zl),
                      projectiles |-> ActiveIds(ql)]
      /\ UNCHANGED <<zombies, projectiles>>
      /\ PartStep("players", [players |-> pl, zombies |-> zl, projectiles |-> ql])

\* the zombies' part of the snapshot being handled
UpdateStateZombies ==
    /\ lastOp.op = "updateState" /\ lastOp.arg.phase = "players"
    /\ LET z == Reconcile("zombie", [store |-> zombies, live |-> handles],
                          lastOp.arg.state.zombies)
       IN zombies' = z.store /\ handles' = z.live
    /\ UNCHANGED <<players, projectiles, lastSnap>>
    /\ PartStep("zombies", lastOp.arg.state)

\* the projectiles' part: the handler returns
UpdateStateProjectiles ==
    /\ lastOp.op = "updateState" /\ lastOp.arg.phase = "zombies"
    /\ LET q == Reconcile("projectile", [store |-> projectiles, live |-> handles],
                          lastOp.arg.state.projectiles)
       IN projectiles' = q.store /\ handles' = q.live
    /\ UNCHANGED <<players, zombies, lastSnap>>
    /\ PartStep("done", lastOp.arg.state)

\* ================================================================ input
\* Vectors are in hundredths (100 is 1.0); angles are a quarter turn
\* (-1 is -PI/2, 1 is PI/2) plus a number of aimSpeed steps of 0.06 rad.
MaxTurn == 2         \* aimSpeed steps away from a quarter turn
MaxTicks == 3        \* input commands one manager sends in a run

Vec(x, y) == [x |-> x, y |-> y]
Div(a, b) == IF a >= 0 THEN a \div b ELSE -((-a) \div b)
ISqrt(n) == CHOOSE r \in 0..n : r * r <= n /\ (r + 1) * (r + 1) > n

\* Math.sin / Math.cos of k aimSpeed steps, rounded to hundredths
SinTable == <<6, 12, 18, 24>>
CosTable == <<100, 99, 98, 97>>
SinSteps(k) == IF k = 0 THEN 0 ELSE IF k > 0 THEN SinTable[k] ELSE -SinTable[-k]
CosSteps(k) == IF k = 0 THEN 100 ELSE IF k > 0 THEN CosTable[k] ELSE CosTable[-k]

\* Math.cos(this.aimAngle) / Math.sin(this.aimAngle)
Cos(a) == IF a.quarter = -1 THEN SinSteps(a.steps) ELSE -SinSteps(a.steps)
Sin(a) == IF a.quarter = -1 THEN -CosSteps(a.steps) ELSE CosSteps(a.steps)

\* this.aimAngle = -Math.PI / 2 / Math.PI / 2
AimUp == [quarter |-> -1, steps |-> 0]
AimDown == [quarter |-> 1, steps |-> 0]
NoAim == [set |-> FALSE, x |-> 0, y |-> 0]

\* ------------------------------------------------ DualJoystick (touch)
maxDistance == 50
LeftFinger == 1
RightFinger == 2
NoJoystick == [exists |-> FALSE, moveVector |-> Vec(0, 0), aimVector |-> Vec(0, 0),
               shooting |-> FALSE, leftTouch |-> NULL, rightTouch |-> NULL]

\* the DualJoystick constructor
NewDualJoystick == [exists |-> TRUE, moveVector |-> Vec(0, 0), aimVector |-> Vec(0, -100),
                    shooting |-> FALSE, leftTouch |-> NULL, rightTouch |-> NULL]

\* finger displacements from the touch start point, in pixels (samples)
LeftMoves == {Vec(25, -25), Vec(3, 0)}
RightMoves == {Vec(30, 40), Vec(3, 4)}

\* updateJoystick(touch, zone, side)
UpdateJoystick(j, side, d) ==
    LET distance == ISqrt(d.x * d.x + d.y * d.y)
        dx == IF distance > maxDistance THEN Div(d.x * maxDistance, distance) ELSE d.x
        dy == IF distance > maxDistance THEN Div(d.y * maxDistance, distance) ELSE d.y
    IN IF side = "left"
       THEN [j EXCEPT !.moveVector = Vec(Div(dx * 100, maxDistance), Div(dy * 100, maxDistance))]
       ELSE [j EXCEPT !.aimVector = IF distance > 5
                                     THEN Vec(Div(dx * 100, distance), Div(dy * 100, distance))
                                     ELSE @,
                      !.shooting = distance > 10]

\* variant: the default of sendInput is used although the joystick exists
GetInputDefault == [moveX |-> 0, moveY |-> 0, aimX |-> 0, aimY |-> 0, shooting |-> FALSE]

\* getInput(), or the default of sendInput when this.joystick is null
GetInput == IF joystick.exists
            THEN [moveX |-> joystick.moveVector.x, moveY |-> joystick.moveVector.y,
                  aimX |-> joystick.aimVector.x, aimY |-> joystick.aimVector.y,
                  shooting |-> joystick.shooting]
            ELSE [moveX |-> 0, moveY |-> 0, aimX |-> 0, aimY |-> 0, shooting |-> FALSE]

InputStep(op, arg) ==
    /\ UNCHANGED appVars
    /\ lastOp' = [op |-> op, sock |-> NULL, arg |-> arg]
    /\ invoked' = <<>> /\ emitted' = <<>> /\ escaped' = FALSE
    /\ UNCHANGED <<ws, socks, timers, reconnectAttempts, listeners, histVars, worldGame,
                   sceneReady, players, zombies, projectiles, handles, lastSnap,
                   pendingWorldChunks, pendingChunks, chunks, turretBarrels, gateSprites,
                   sprites, textures, delivered, unloaded, mgrVars>>

\* onTouchStart(e, side)
TouchStart ==
    \E side \in {"left", "right"} :
      /\ joystick.exists
      /\ IF side = "left"
         THEN /\ joystick.leftTouch = NULL
              /\ joystick' = [joystick EXCEPT !.leftTouch = LeftFinger]
         ELSE /\ joystick.rightTouch = NULL
              /\ joystick' = [joystick EXCEPT !.rightTouch = RightFinger, !.shooting = TRUE]
      /\ UNCHANGED <<wire, keys, aimAngle, lastAim, inputSeq, sentAim>>
      /\ InputStep("touchstart", side)

\* onTouchMove(e, side)
TouchMove ==
    \E side \in {"left", "right"} :
      \E d \in IF side = "left" THEN LeftMoves ELSE RightMoves :
        /\ joystick.exists
        /\ IF side = "left" THEN joystick.leftTouch = LeftFinger
                            ELSE joystick.rightTouch = RightFinger
        /\ joystick' = UpdateJoystick(joystick, side, d)
        /\ UNCHANGED <<wire, keys, aimAngle, lastAim, inputSeq, sentAim>>
        /\ InputStep("touchmove", side)

\* onTouchEnd(e, side) (touchend and touchcancel)
TouchEnd ==
    \E side \in {"left", "right"} :
      /\ joystick.exists
      /\ IF side = "left"
         THEN /\ joystick.leftTouch = LeftFinger
              /\ joystick' = [joystick EXCEPT !.leftTouch = NULL, !.moveVector = Vec(0, 0)]
         ELSE /\ joystick.rightTouch = RightFinger
              /\ joystick' = [joystick EXCEPT !.rightTouch = NULL, !.shooting = FALSE]
      /\ UNCHANGED <<wire, keys, aimAngle, lastAim, inputSeq, sentAim>>
      /\ InputStep("touchend", side)

\* ------------------------------------- several touches in one zone
MaxFingers == 2     \* touches held at a time
Fingers == 1..MaxFingers

FingerStep(op, arg) ==
    /\ lastOp' = [op |-> op, sock |-> NULL, arg |-> arg]
    /\ invoked' = <<>> /\ emitted' = <<>> /\ escaped' = FALSE
    /\ UNCHANGED <<connVars, histVars, worldGame, sceneReady, players, zombies, projectiles,
                   handles, lastSnap, pendingWorldChunks, pendingChunks, chunks,
                   turretBarrels, gateSprites, sprites, textures, delivered, unloaded,
                   keys, aimAngle, lastAim, inputSeq, sentAim, mgrVars,
                   transportVars, sentBuildings, baseVars>>

\* touchstart of a further finger f in a zone: onTouchStart(e, side) takes
\* over the zone for f
FingerStart ==
    \E side \in {"left", "right"}, f \in Fingers \ (fingers.left \cup fingers.right) :
      /\ joystick.exists
      /\ joystick' = IF side = "left"
                     THEN [joystick EXCEPT !.leftTouch = f]
                     ELSE [joystick EXCEPT !.rightTouch = f, !.shooting = TRUE]
      /\ fingers' = [fingers EXCEPT ![side] = fingers[side] \cup {f}]
      /\ FingerStep("touchstart", [side |-> side, finger |-> f, tracked |-> TRUE])

\* touchmove of the finger f held in a zone: onTouchMove(e, side)
FingerMove ==
    \E side \in {"left", "right"} :
      \E f \in fingers[side], d \in IF side = "left" THEN LeftMoves ELSE RightMoves :
        LET tracked == f = (IF side = "left" THEN joystick.leftTouch ELSE joystick.rightTouch)
        IN /\ joystick.exists
           /\ joystick' = IF tracked THEN UpdateJoystick(joystick, side, d) ELSE joystick
           /\ UNCHANGED fingers
           /\ FingerStep("touchmove", [side |-> side, finger |-> f, tracked |-> tracked])

\* variant: the end of the tracked touch leaves moveVector and shooting
FingerEndKeepState ==
    \E side \in {"left", "right"} :
      \E f \in fingers[side] :
        LET tracked == f = (IF side = "left" THEN joystick.leftTouch ELSE joystick.rightTouch)
        IN /\ joystick.exists
           /\ joystick' = IF ~tracked THEN joystick
                          ELSE IF side = "left"
                          THEN [joystick EXCEPT !.leftTouch = NULL]
                          ELSE [joystick EXCEPT !.rightTouch = NULL]
           /\ fingers' = [fingers EXCEPT ![side] = fingers[side] \ {f}]
           /\ FingerStep("touchend", [side |-> side, finger |-> f, tracked |-> tracked])

\* touchend / touchcancel of the finger f held in a zone: onTouchEnd(e, side)
FingerEnd ==
    \E side \in {"left", "right"} :
      \E f \in fingers[side] :
        LET tracked == f = (IF side = "left" THEN joystick.leftTouch ELSE joystick.rightTouch)
        IN /\ joystick.exists
           /\ joystick' = IF ~tracked THEN joystick
                          ELSE IF side = "left"
                          THEN [joystick EXCEPT !.leftTouch = NULL, !.moveVector = Vec(0, 0)]
                          ELSE [joystick EXCEPT !.rightTouch = NULL, !.shooting = FALSE]
           /\ fingers' = [fingers EXCEPT ![side] = fingers[side] \ {f}]
           /\ FingerStep("touchend", [side |-> side, finger |-> f, tracked |-> tracked])

\* ----------------------------------------------------------- keyboard
\* key codes pressed in a run (samples)
KeyCodes == {"KeyA", "KeyW", "ArrowLeft", "Slash"}

\* this._onKeyDown
KeyDown ==
    \E code \in KeyCodes :
      /\ kbListening
      /\ keys' = keys \cup {code}
      /\ UNCHANGED <<wire, joystick, aimAngle, lastAim, inputSeq, sentAim>>
      /\ InputStep("keydown", code)

\* this._onKeyUp
KeyUp ==
    \E code \in KeyCodes :
      /\ kbListening
      /\ keys' = keys \ {code}
      /\ UNCHANGED <<wire, joystick, aimAngle, lastAim, inputSeq, sentAim>>
      /\ InputStep("keyup", code)

\* ---------------------------------------------------------- sendInput
Held(code) == code \in keys
Abs(n) == IF n < 0 THEN -n ELSE n

\* kbMoveX, kbMoveY after the diagonal normalisation
KbMove ==
    LET kx == (IF Held("KeyD") THEN 1 ELSE 0) - (IF Held("KeyA") THEN 1 ELSE 0)
        ky == (IF Held("KeyS") THEN 1 ELSE 0) - (IF Held("KeyW") THEN 1 ELSE 0)
    IN IF kx # 0 /\ ky # 0
       THEN Vec(Div(kx * 10000, ISqrt(20000)), Div(ky * 10000, ISqrt(20000)))
       ELSE Vec(kx * 100, ky * 100)

\* this.aimAngle after the four arrow-key statements
KbAimAngle ==
    LET a1 == IF Held("ArrowLeft") THEN [aimAngle EXCEPT !.steps = @ - 1] ELSE aimAngle
        a2 == IF Held("ArrowRight") THEN [a1 EXCEPT !.steps = @ + 1] ELSE a1
        a3 == IF Held("ArrowUp") THEN AimUp ELSE a2
    IN IF Held("ArrowDown") THEN AimDown ELSE a3

KbShooting == Held("Slash")

HasKeyboard ==
    \/ KbMove # Vec(0, 0)
    \/ KbShooting
    \/ Held("ArrowLeft") \/ Held("ArrowRight") \/ Held("ArrowUp") \/ Held("ArrowDown")

\* this.joystick?.rightTouch !== null
RightHeld == ~joystick.exists \/ joystick.rightTouch # NULL

\* variant: the command carries the counter before its increment
SampleSameSeq ==
    LET joy == GetInput
        move == IF HasKeyboard THEN KbMove ELSE Vec(joy.moveX, joy.moveY)
        len == ISqrt(move.x * move.x + move.y * move.y)
        aim == IF HasKeyboard THEN [v |-> Vec(Cos(KbAimAngle), Sin(KbAimAngle)), keep |-> FALSE]
               ELSE IF RightHeld THEN [v |-> Vec(joy.aimX, joy.aimY), keep |-> TRUE]
               ELSE IF Abs(move.x) > 10 \/ Abs(move.y) > 10
               THEN [v |-> Vec(Div(move.x * 100, len), Div(move.y * 100, len)), keep |-> TRUE]
               ELSE IF lastAim.set THEN [v |-> Vec(lastAim.x, lastAim.y), keep |-> FALSE]
               ELSE [v |-> Vec(0, 0), keep |-> FALSE]
    IN [cmd |-> [seq |-> inputSeq, move_x |-> move.x, move_y |-> move.y,
                 aim_x |-> aim.v.x, aim_y |-> aim.v.y,
                 shooting |-> KbShooting \/ joy.shooting],
        last |-> IF aim.keep THEN [set |-> TRUE, x |-> aim.v.x, y |-> aim.v.y] ELSE lastAim]

\* the command of one tick and the _lastAim it leaves: [cmd, last]
Sample ==
    LET joy == GetInput
        move == IF HasKeyboard THEN KbMove ELSE Vec(joy.moveX, joy.moveY)
        len == ISqrt(move.x * move.x + move.y * move.y)
        aim == IF HasKeyboard THEN [v |-> Vec(Cos(KbAimAngle), Sin(KbAimAngle)), keep |-> FALSE]
               ELSE IF RightHeld THEN [v |-> Vec(joy.aimX, joy.aimY), keep |-> TRUE]
               ELSE IF Abs(move.x) > 10 \/ Abs(move.y) > 10
               THEN [v |-> Vec(Div(move.x * 100, len), Div(move.y * 100, len)), keep |-> TRUE]
               ELSE IF lastAim.set THEN [v |-> Vec(lastAim.x, lastAim.y), keep |-> FALSE]
               ELSE [v |-> Vec(0, 0), keep |-> FALSE]
    IN [cmd |-> [seq |-> inputSeq + 1, move_x |-> move.x, move_y |-> move.y,
                 aim_x |-> aim.v.x, aim_y |-> aim.v.y,
                 shooting |-> KbShooting \/ joy.shooting],
        last |-> IF aim.keep THEN [set |-> TRUE, x |-> aim.v.x, y |-> aim.v.y] ELSE lastAim]

\* sendInput(): one tick of the input timer started by create()
SendInput ==
    /\ worldGame /\ sceneReady /\ inputTimer
    /\ IF ~IsConnected
       THEN /\ UNCHANGED <<wire, keys, joystick, aimAngle, lastAim, inputSeq, sentAim>>
            /\ InputStep("inputSkipped", "none")
       ELSE /\ inputSeq < MaxTicks
            /\ Abs(KbAimAngle.steps) <= MaxTurn
            /\ aimAngle' = KbAimAngle
            /\ lastAim' = Sample.last
            /\ inputSeq' = inputSeq + 1
            /\ wire' = IF MaySend THEN Append(wire, <<ws, "world_input">>) ELSE wire
            /\ sentAim' = (sentAim \/ Sample.cmd.aim_x # 0 \/ Sample.cmd.aim_y # 0)
            /\ UNCHANGED <<keys, joystick>>
            /\ InputStep("sendInput", Sample.cmd)

\* =============================================================== chunks
\* const key = `${chunk_x},${chunk_y}`
ChunkKey(cx, cy) == <<cx, cy>>

\* a display object of a chunk: the terrain image, a resource node, a part
\* of a building (ref is the resource index or the building id)
Sprite(key, part, ref) == [chunk |-> key, part |-> part, ref |-> ref]

\* the display objects loadChunk creates for data.resources
RECURSIVE ResourceSprites(_, _, _)
ResourceSprites(key, resources, i) ==
    IF i > Len(resources) THEN <<>>
    ELSE (IF resources[i].type = "trash"
          THEN <<Sprite(key, "trash", i), Sprite(key, "trashLabel", i)>>
          ELSE <<Sprite(key, "node", i)>>)
         \o ResourceSprites(key, resources, i + 1)

\* the texture keys create() registers with addCanvas(`bldg_${code}`)
BuildingTextures == {"wall_wood", "wall_metal", "gate_wood", "gate_metal", "mine",
                     "sawmill", "farm", "ammo_factory", "med_station", "bunker",
                     "barracks", "arena"}

\* String.prototype.startsWith over the type codes of the game
StartsWith(code, prefix) ==
    CASE prefix = "wall_" -> code \in {"wall_wood", "wall_metal"}
      [] prefix = "gate_" -> code \in {"gate_wood", "gate_metal"}
      [] prefix = "turret" -> code \in {"turret_basic", "turret_heavy"}
      [] OTHER -> FALSE

IsGate(b) == b.type_code \in {"gate_wood", "gate_metal"}
IsTurret(b) == b.type_code \in {"turret_basic", "turret_heavy"}

\* _createBuildingSprite(b): the sprites it returns (the gate branch
\* returns before the health bar of damaged buildings is added)
BuildingSprites(key, b) ==
    IF IsGate(b)
    THEN <<Sprite(key, IF b.type_code \in BuildingTextures THEN "gate" ELSE "rect", b.id),
           Sprite(key, "label", b.id)>>
    ELSE (IF IsTurret(b)
          THEN <<Sprite(key, "range", b.id), Sprite(key, "base", b.id),
                 Sprite(key, "body", b.id), Sprite(key, "barrel", b.id),
                 Sprite(key, "label", b.id)>>
          ELSE <<Sprite(key, IF b.type_code \in BuildingTextures THEN "img" ELSE "rect", b.id)>>
               \o (IF ~StartsWith(b.type_code, "wall_")
                   THEN <<Sprite(key, "label", b.id)>> ELSE <<>>))
         \o (IF b.hp < b.max_hp THEN <<Sprite(key, "hp", b.id)>> ELSE <<>>)

\* _createBuildingSprite(b): the registry entries it writes; cs is the
\* manager's chunk state
RegisterBuilding(cs, key, b) ==
    IF IsGate(b) /\ b.type_code \in BuildingTextures
    THEN [cs EXCEPT !.gateSprites =
            [set |-> TRUE,
             map |-> Put(cs.gateSprites.map, b.id,
                         [sprite |-> Sprite(key, "gate", b.id), isOpen |-> FALSE])]]
    ELSE IF IsTurret(b)
    THEN [cs EXCEPT !.turretBarrels =
            [set |-> TRUE,
             map |-> Put(cs.turretBarrels.map, b.id, Sprite(key, "barrel", b.id))]]
    ELSE cs

\* for (const b of buildings) buildingSprites.push(..._createBuildingSprite(b))
RECURSIVE CreateBuildings(_, _, _)
CreateBuildings(cs, key, buildings) ==
    IF buildings = <<>> THEN [cs |-> cs, made |-> <<>>]
    ELSE LET b == Head(buildings)
             one == [RegisterBuilding(cs, key, b) EXCEPT
                       !.sprites = CreatedAll(cs.sprites, BuildingSprites(key, b))]
             rest == CreateBuildings(one, key, Tail(buildings))
         IN [cs |-> rest.cs, made |-> BuildingSprites(key, b) \o rest.made]

\* const chunkSeed = data.seed || (data.chunk_x * 7919 + data.chunk_y * 6271)
ChunkSeed(data) ==
    IF data.seed # 0 THEN data.seed ELSE data.chunk_x * 7919 + data.chunk_y * 6271

\* variant: a load for a resident key builds the chunk again
LoadChunkAgain(cs, data) ==
    IF ~cs.sceneReady THEN [cs EXCEPT !.pendingChunks = Append(cs.pendingChunks, data)]
    ELSE LET key == ChunkKey(data.chunk_x, data.chunk_y)
             res == ResourceSprites(key, data.resources, 1)
             base == [cs EXCEPT !.textures = cs.textures \cup {key},
                                !.sprites = CreatedAll(
                                    Created(cs.sprites, Sprite(key, "terrain", 0)), res)]
             blt == CreateBuildings(base, key, data.buildings)
         IN [blt.cs EXCEPT !.chunks =
               Put(blt.cs.chunks, key,
                   [textureKey |-> key, seed |-> ChunkSeed(data),
                    terrain |-> data.terrain, resourceSprites |-> res,
                    buildingSprites |-> blt.made, buildings |-> data.buildings])]

\* loadChunk(data)
LoadChunk(cs, data) ==
    IF ~cs.sceneReady THEN [cs EXCEPT !.pendingChunks = Append(cs.pendingChunks, data)]
    ELSE LET key == ChunkKey(data.chunk_x, data.chunk_y)
         IN IF key \in DOMAIN cs.chunks THEN cs
            ELSE LET res == ResourceSprites(key, data.resources, 1)
                     base == [cs EXCEPT !.textures = cs.textures \cup {key},
                                        !.sprites = CreatedAll(
                                            Created(cs.sprites, Sprite(key, "terrain", 0)), res)]
                     blt == CreateBuildings(base, key, data.buildings)
                 IN [blt.cs EXCEPT !.chunks =
                       Put(blt.cs.chunks, key,
                           [textureKey |-> key, seed |-> ChunkSeed(data),
                            terrain |-> data.terrain, resourceSprites |-> res,
                            buildingSprites |-> blt.made, buildings |-> data.buildings])]

\* _cleanupChunkTurretBarrels(buildings)
RECURSIVE CleanupChunkTurretBarrels(_, _)
CleanupChunkTurretBarrels(cs, buildings) ==
    IF buildings = <<>> THEN cs
    ELSE LET b == Head(buildings)
             t == IF cs.turretBarrels.set /\ StartsWith(b.type_code, "turret")
                  THEN [cs EXCEPT !.turretBarrels.map = Delete(cs.turretBarrels.map, b.id)]
                  ELSE cs
             g == IF t.gateSprites.set /\ StartsWith(b.type_code, "gate_")
                  THEN [t EXCEPT !.gateSprites.map = Delete(t.gateSprites.map, b.id)]
                  ELSE t
         IN CleanupChunkTurretBarrels(g, Tail(buildings))

\* variant: the key stays in the chunk map
UnloadChunkKeepEntry(cs, cx, cy) ==
    LET key == ChunkKey(cx, cy)
    IN IF key \notin DOMAIN cs.chunks THEN cs
       ELSE LET chunk == cs.chunks[key]
                c1 == CleanupChunkTurretBarrels(cs, chunk.buildings)
            IN [c1 EXCEPT
                  !.sprites = DestroyedAll(
                                DestroyedAll(Destroyed(c1.sprites, Sprite(key, "terrain", 0)),
                                             chunk.resourceSprites),
                                chunk.buildingSprites),
                  !.textures = c1.textures \ {chunk.textureKey}]

\* variant: the building sprites of the chunk are not destroyed
UnloadChunkKeepBuildings(cs, cx, cy) ==
    LET key == ChunkKey(cx, cy)
    IN IF key \notin DOMAIN cs.chunks THEN cs
       ELSE LET chunk == cs.chunks[key]
                c1 == CleanupChunkTurretBarrels(cs, chunk.buildings)
            IN [c1 EXCEPT
                  !.sprites = DestroyedAll(Destroyed(c1.sprites, Sprite(key, "terrain", 0)),
                                           chunk.resourceSprites),
                  !.textures = c1.textures \ {chunk.textureKey},
                  !.chunks = Delete(c1.chunks, key)]

\* variant: the registries are not cleaned up
UnloadChunkKeepRegistry(cs, cx, cy) ==
    LET key == ChunkKey(cx, cy)
    IN IF key \notin DOMAIN cs.chunks THEN cs
       ELSE LET chunk == cs.chunks[key]
            IN [cs EXCEPT
                  !.sprites = DestroyedAll(
                                DestroyedAll(Destroyed(cs.sprites, Sprite(key, "terrain", 0)),
                                             chunk.resourceSprites),
                                chunk.buildingSprites),
                  !.textures = cs.textures \ {chunk.textureKey},
                  !.chunks = Delete(cs.chunks, key)]

\* unloadChunk(chunk_x, chunk_y)
UnloadChunk(cs, cx, cy) ==
    LET key == ChunkKey(cx, cy)
    IN IF key \notin DOMAIN cs.chunks THEN cs
       ELSE LET chunk == cs.chunks[key]
                c1 == CleanupChunkTurretBarrels(cs, chunk.buildings)
            IN [c1 EXCEPT
                  !.sprites = DestroyedAll(
                                DestroyedAll(Destroyed(c1.sprites, Sprite(key, "terrain", 0)),
                                             chunk.resourceSprites),
                                chunk.buildingSprites),
                  !.textures = c1.textures \ {chunk.textureKey},
                  !.chunks = Delete(c1.chunks, key)]

\* variant: the new sprites are created before the old registry entries
\* are removed and the old sprites destroyed
UpdateChunkBuildingsCreateFirst(cs, data) ==
    LET key == ChunkKey(data.chunk_x, data.chunk_y)
    IN IF key \notin DOMAIN cs.chunks THEN cs
       ELSE LET chunk == cs.chunks[key]
                blt == CreateBuildings(cs, key, data.buildings)
                c1 == CleanupChunkTurretBarrels(blt.cs, chunk.buildings)
                c2 == [c1 EXCEPT !.sprites = DestroyedAll(c1.sprites, chunk.buildingSprites)]
            IN [c2 EXCEPT !.chunks[key].buildingSprites = blt.made,
                          !.chunks[key].buildings = data.buildings]

\* updateChunkBuildings(data)
UpdateChunkBuildings(cs, data) ==
    LET key == ChunkKey(data.chunk_x, data.chunk_y)
    IN IF key \notin DOMAIN cs.chunks THEN cs
       ELSE LET chunk == cs.chunks[key]
                c1 == CleanupChunkTurretBarrels(cs, chunk.buildings)
                c2 == [c1 EXCEPT !.sprites = DestroyedAll(c1.sprites, chunk.buildingSprites)]
                blt == CreateBuildings(c2, key, data.buildings)
            IN [blt.cs EXCEPT !.chunks[key].buildingSprites = blt.made,
                              !.chunks[key].buildings = data.buildings]

RECURSIVE LoadAll(_, _)
LoadAll(cs, datas) ==
    IF datas = <<>> THEN cs ELSE LoadAll(LoadChunk(cs, Head(datas)), Tail(datas))

\* the manager's chunk state as one record, and back
ChunkState == [sceneReady |-> sceneReady, pendingChunks |-> pendingChunks,
               chunks |-> chunks, sprites |-> sprites, textures |-> textures,
               turretBarrels |-> turretBarrels, gateSprites |-> gateSprites]

SetChunkState(cs) ==
    /\ sceneReady' = cs.sceneReady
    /\ pendingChunks' = cs.pendingChunks
    /\ chunks' = cs.chunks
    /\ sprites' = cs.sprites
    /\ textures' = cs.textures
    /\ turretBarrels' = cs.turretBarrels
    /\ gateSprites' = cs.gateSprites

\* variant: the buffered loads are replayed newest first
DrainNewestFirst(cs) ==
    LET rev == [i \in 1..Len(cs.pendingChunks) |->
                  cs.pendingChunks[Len(cs.pendingChunks) + 1 - i]]
    IN [LoadAll([cs EXCEPT !.pendingChunks = <<>>], rev) EXCEPT !.pendingChunks = <<>>]

\* create(): for (const data of this.pendingChunks) this.loadChunk(data);
\* this.pendingChunks = []
Drain(cs) ==
    [LoadAll(cs, cs.pendingChunks) EXCEPT !.pendingChunks = <<>>]

\* create(): the scene becomes ready
SceneCreate ==
    /\ worldGame
    /\ game
    /\ ~sceneReady
    /\ SetChunkState(Drain([ChunkState EXCEPT
                              !.sceneReady = TRUE,
                              !.gateSprites = [set |-> TRUE, map |-> <<>>]]))
    /\ UNCHANGED appVars
    /\ lastOp' = [op |-> "create", sock |-> NULL, arg |-> "none"]
    /\ invoked' = <<>> /\ emitted' = <<>> /\ escaped' = FALSE
    /\ joystick' = NewDualJoystick
    /\ inputTimer' = TRUE
    /\ UNCHANGED <<connVars, histVars, worldGame, players, zombies, projectiles, handles,
                   lastSnap, pendingWorldChunks, delivered, unloaded, keys, aimAngle,
                   lastAim, inputSeq, sentAim, game, kbListening, groundDrops, orphans>>

\* the 'world_entered' handler: new WorldGameManager(), start(), then the
\* loads buffered in window.VELLA._pendingWorldChunks go to loadChunk
MsgWorldEntered ==
    /\ worldGame' = TRUE
    /\ players' = <<>> /\ zombies' = <<>> /\ projectiles' = <<>>
    /\ SetChunkState(
         LoadAll([sceneReady |-> FALSE, pendingChunks |-> <<>>, chunks |-> <<>>,
                  sprites |-> sprites, textures |-> textures,
                  turretBarrels |-> [set |-> FALSE, map |-> <<>>],
                  gateSprites |-> [set |-> FALSE, map |-> <<>>]],
                 IF pendingWorldChunks.set THEN pendingWorldChunks.items ELSE <<>>))
    /\ pendingWorldChunks' = [set |-> FALSE, items |-> <<>>]
    /\ UNCHANGED appVars
    /\ lastOp' = [op |-> "world_entered", sock |-> NULL, arg |-> "none"]
    /\ invoked' = <<>> /\ emitted' = <<>> /\ escaped' = FALSE
    /\ keys' = {}
    /\ joystick' = NoJoystick
    /\ aimAngle' = AimUp
    /\ lastAim' = NoAim
    /\ inputSeq' = 0
    /\ sentAim' = FALSE
    /\ game' = TRUE
    /\ kbListening' = TRUE
    /\ inputTimer' = FALSE
    /\ groundDrops' = {}
    /\ orphans' = IF worldGame /\ (game \/ kbListening) THEN orphans + 1 ELSE orphans
    /\ UNCHANGED <<connVars, histVars, handles, lastSnap, delivered, unloaded>>

\* ------------------------------------------------------- ground drops
\* _updateGroundDrops(drops): the keys whose parseInt is not in the list
\* are deleted, then every listed drop not yet shown is created
UpdateGroundDrops(shown, drops) ==
    {id \in shown : ~Absent(ToKey(id), ActiveIds(drops))} \cup ActiveIds(drops)

DropLists == {<<>>, <<[id |-> 3]>>, <<[id |-> 3], [id |-> 4]>>}

\* the 'world_state' handler on a snapshot that carries ground_drops (and
\* at most the own player)
MsgWorldStateDrops ==
    \E pl \in {<<>>, <<[id |-> 7, x |-> 0, armor |-> 0, is_dead |-> FALSE]>>},
       drops \in DropLists :
      /\ IF worldGame
         THEN /\ UpdateState([players |-> pl, zombies |-> <<>>, projectiles |-> <<>>])
              /\ groundDrops' = IF sceneReady THEN UpdateGroundDrops(groundDrops, drops)
                                ELSE groundDrops
         ELSE UNCHANGED <<players, zombies, projectiles, handles, lastSnap, groundDrops>>
      /\ UNCHANGED appVars
      /\ lastOp' = [op |-> "world_state", sock |-> NULL,
                    arg |-> [players |-> pl, zombies |-> <<>>, projectiles |-> <<>>,
                             removal |-> "none", ground_drops |-> drops]]
      /\ invoked' = <<>> /\ emitted' = <<>> /\ escaped' = FALSE
      /\ UNCHANGED <<connVars, histVars, inputVars, worldGame, sceneReady,
                     pendingWorldChunks, pendingChunks, chunks, turretBarrels,
                     gateSprites, sprites, textures, delivered, unloaded, game,
                     kbListening, inputTimer, orphans>>

\* ------------------------------------------------- gates in a snapshot
\* variant: a gate the snapshot does not list as open leaves the registry
UpdateGatesDropClosed(gs, openSet) ==
    IF ~gs.set THEN gs
    ELSE [gs EXCEPT !.map = [id \in {i \in DOMAIN gs.map : i \in openSet} |->
                               [gs.map[id] EXCEPT !.isOpen = TRUE]]]

\* the open_gates part of updateState: gate.isOpen follows openSet.has(id)
UpdateGates(gs, openSet) ==
    IF ~gs.set THEN gs
    ELSE [gs EXCEPT !.map = [id \in DOMAIN gs.map |->
                               [gs.map[id] EXCEPT !.isOpen = (id \in openSet)]]]

\* state.open_gates of a snapshot (samples): absent, empty, gate 2 open
OpenGates == {[present |-> FALSE, ids |-> {}], [present |-> TRUE, ids |-> {}],
              [present |-> TRUE, ids |-> {2}]}

\* the 'world_state' handler on a snapshot without entities that may carry
\* open_gates
MsgWorldStateGates ==
    \E og \in OpenGates :
      /\ IF worldGame
         THEN /\ UpdateState([players |-> <<>>, zombies |-> <<>>, projectiles |-> <<>>])
              /\ gateSprites' = IF sceneReady /\ og.present
                                THEN UpdateGates(gateSprites, og.ids)
                                ELSE gateSprites
         ELSE UNCHANGED <<players, zombies, projectiles, handles, lastSnap, gateSprites>>
      /\ UNCHANGED appVars
      /\ lastOp' = [op |-> "world_state", sock |-> NULL,
                    arg |-> [players |-> <<>>, zombies |-> <<>>, projectiles |-> <<>>,
                             removal |-> "none", open_gates |-> og]]
      /\ invoked' = <<>> /\ emitted' = <<>> /\ escaped' = FALSE
      /\ UNCHANGED <<connVars, histVars, inputVars, mgrVars, worldGame, sceneReady,
                     pendingWorldChunks, pendingChunks, chunks, turretBarrels,
                     sprites, textures, delivered, unloaded>>

\* ------------------------------------------- snapshots that lack a list
\* the 'world_state' handler on a message in which only the lists named in
\* has are present (ground_drops always is): `for (... of undefined)` throws
\* at the first missing list and the rest of updateState is skipped
MsgWorldStatePartial ==
    \E has \in SUBSET {"players", "zombies", "projectiles"},
       pl \in {<<>>, <<[id |-> 7, x |-> 0, armor |-> 0, is_dead |-> FALSE]>>},
       zl \in {<<>>, <<[id |-> 7, x |-> 0, type |-> "normal"]>>},
       drops \in DropLists :
      LET ql == <<>>
          run == worldGame /\ sceneReady
          doP == run /\ "players" \in has
          doZ == doP /\ "zombies" \in has
          doQ == doZ /\ "projectiles" \in has
          p == IF doP THEN Reconcile("player", [store |-> players, live |-> handles], pl)
               ELSE [store |-> players, live |-> handles]
          z == IF doZ THEN Reconcile("zombie", [store |-> zombies, live |-> p.live], zl)
               ELSE [store |-> zombies, live |-> p.live]
          q == IF doQ THEN Reconcile("projectile", [store |-> projectiles, live |-> z.live], ql)
               ELSE [store |-> projectiles, live |-> z.live]
      IN /\ players' = p.store
         /\ zombies' = z.store
         /\ projectiles' = q.store
         /\ handles' = q.live
         /\ lastSnap' = [players |-> IF doP THEN ActiveIds(pl) ELSE lastSnap.players,
                         zombies |-> IF doZ THEN ActiveIds(zl) ELSE lastSnap.zombies,
                         projectiles |-> IF doQ THEN ActiveIds(ql) ELSE lastSnap.projectiles]
         /\ groundDrops' = IF doQ THEN UpdateGroundDrops(groundDrops, drops) ELSE groundDrops
         /\ UNCHANGED appVars
         /\ lastOp' = [op |-> "world_state", sock |-> NULL,
                       arg |-> [has |-> has, players |-> pl, zombies |-> zl,
                                projectiles |-> ql, removal |-> "none",
                                ground_drops |-> drops]]
         /\ invoked' = <<>> /\ emitted' = <<>>
         /\ escaped' = (run /\ ~doQ)
         /\ UNCHANGED <<connVars, histVars, inputVars, worldGame, sceneReady,
                        pendingWorldChunks, pendingChunks, chunks, turretBarrels,
                        gateSprites, sprites, textures, delivered, unloaded, game,
                        kbListening, inputTimer, orphans>>

\* --------------------------------------------------------------- destroy
\* the chunk loop of destroy(): every sprite of every chunk is destroyed and
\* its texture removed
RECURSIVE DestroyChunks(_, _)
DestroyChunks(cs, ks) ==
    IF ks = {} THEN cs
    ELSE LET key == CHOOSE k \in ks : TRUE
             chunk == cs.chunks[key]
         IN DestroyChunks(
              [cs EXCEPT
                 !.sprites = DestroyedAll(
                               DestroyedAll(Destroyed(cs.sprites, Sprite(key, "terrain", 0)),
                                            chunk.resourceSprites),
                               chunk.buildingSprites),
                 !.textures = IF cs.sceneReady THEN cs.textures \ {chunk.textureKey}
                              ELSE cs.textures],
              ks \ {key})

\* variant: the stores of the entities are kept
DestroyKeepEntities ==
    /\ worldGame
    /\ kbListening' = FALSE
    /\ joystick' = NoJoystick
    /\ LET cs == DestroyChunks(ChunkState, DOMAIN chunks)
       IN /\ sprites' = IF game THEN <<>> ELSE cs.sprites
          /\ textures' = IF game THEN {} ELSE cs.textures
    /\ chunks' = <<>>
    /\ UNCHANGED <<players, zombies, projectiles>>
    /\ groundDrops' = {}
    /\ handles' = IF game THEN <<>> ELSE handles
    /\ inputTimer' = IF game THEN FALSE ELSE inputTimer
    /\ game' = FALSE
    /\ UNCHANGED appVars
    /\ lastOp' = [op |-> "destroy", sock |-> NULL, arg |-> IF game THEN "first" ELSE "again"]
    /\ invoked' = <<>> /\ emitted' = <<>> /\ escaped' = FALSE
    /\ UNCHANGED <<connVars, histVars, worldGame, sceneReady, lastSnap, pendingWorldChunks,
                   pendingChunks, turretBarrels, gateSprites, delivered, unloaded, keys,
                   aimAngle, lastAim, inputSeq, sentAim, orphans>>

\* destroy() called on the manager window.VELLA.worldGame refers to.
\* game.destroy(true) stops the Phaser game: its display objects, textures
\* and time events are gone and neither create() nor update() is called
\* again. sceneReady, pendingChunks and the registries are not reset.
Destroy ==
    /\ worldGame
    /\ kbListening' = FALSE
    /\ joystick' = NoJoystick
    /\ LET cs == DestroyChunks(ChunkState, DOMAIN chunks)
       IN /\ sprites' = IF game THEN <<>> ELSE cs.sprites
          /\ textures' = IF game THEN {} ELSE cs.textures
    /\ chunks' = <<>>
    /\ players' = <<>> /\ zombies' = <<>> /\ projectiles' = <<>>
    /\ groundDrops' = {}
    /\ handles' = IF game THEN <<>> ELSE handles
    /\ inputTimer' = IF game THEN FALSE ELSE inputTimer
    /\ game' = FALSE
    /\ UNCHANGED appVars
    /\ lastOp' = [op |-> "destroy", sock |-> NULL, arg |-> IF game THEN "first" ELSE "again"]
    /\ invoked' = <<>> /\ emitted' = <<>> /\ escaped' = FALSE
    /\ UNCHANGED <<connVars, histVars, worldGame, sceneReady, lastSnap, pendingWorldChunks,
                   pendingChunks, turretBarrels, gateSprites, delivered, unloaded, keys,
                   aimAngle, lastAim, inputSeq, sentAim, orphans>>

\* ------------------------------------------- chunk instructions (samples)
MaxLoads == 3       \* load instructions in a run
Resources == <<[type |-> "metal"], [type |-> "trash"]>>
Turret == [id |-> 1, type_code |-> "turret_basic", hp |-> 50, max_hp |-> 100]
Gate == [id |-> 2, type_code |-> "gate_wood", hp |-> 100, max_hp |-> 100]
LoadMsgs ==
    {[chunk_x |-> k[1], chunk_y |-> k[2], seed |-> sd, terrain |-> "grid32x32",
      resources |-> Resources, buildings |-> bl] :
        k \in {<<2, 3>>, <<0, 1>>}, sd \in {0, 5}, bl \in {<<>>, <<Turret, Gate>>}}

\* the 'world_chunk_load' handler
MsgChunkLoad ==
    \E data \in LoadMsgs :
      /\ Len(delivered) < MaxLoads
      /\ IF worldGame
         THEN /\ SetChunkState(LoadChunk(ChunkState, data))
              /\ UNCHANGED pendingWorldChunks
         ELSE /\ pendingWorldChunks' =
                   [set |-> TRUE, items |-> Append(pendingWorldChunks.items, data)]
              /\ UNCHANGED <<sceneReady, pendingChunks, chunks, sprites, textures,
                             turretBarrels, gateSprites>>
      /\ delivered' = Append(delivered,
                             [data |-> data,
                              phase |-> IF ~worldGame THEN "nomanager"
                                        ELSE IF ~sceneReady THEN "notready" ELSE "ready"])
      /\ unloaded' = unloaded \ {ChunkKey(data.chunk_x, data.chunk_y)}
      /\ UNCHANGED <<transportVars, fingers, baseVars>>
      /\ sentBuildings' = Put(sentBuildings, ChunkKey(data.chunk_x, data.chunk_y), data.buildings)
      /\ lastOp' = [op |-> "world_chunk_load", sock |-> NULL,
                    arg |-> IF ChunkKey(data.chunk_x, data.chunk_y) \in unloaded
                            THEN "afterUnload" ELSE "none"]
      /\ invoked' = <<>> /\ emitted' = <<>> /\ escaped' = FALSE
      /\ UNCHANGED <<connVars, histVars, inputVars, mgrVars, worldGame, players, zombies, projectiles, handles,
                     lastSnap>>

\* the 'world_chunk_unload' handler
MsgChunkUnload ==
    \E k \in {<<2, 3>>, <<0, 1>>} :
      /\ IF worldGame
         THEN SetChunkState(UnloadChunk(ChunkState, k[1], k[2]))
         ELSE UNCHANGED <<sceneReady, pendingChunks, chunks, sprites, textures,
                          turretBarrels, gateSprites>>
      /\ unloaded' = unloaded \cup {k}
      /\ UNCHANGED appVars
      /\ lastOp' = [op |-> "world_chunk_unload", sock |-> NULL, arg |-> k]
      /\ invoked' = <<>> /\ emitted' = <<>> /\ escaped' = FALSE
      /\ UNCHANGED <<connVars, histVars, inputVars, mgrVars, worldGame, players, zombies, projectiles, handles,
                     lastSnap, pendingWorldChunks, delivered>>

\* building lists of a buildings-update (samples)
DamagedGate == [id |-> 2, type_code |-> "gate_wood", hp |-> 40, max_hp |-> 100]
Mine == [id |-> 3, type_code |-> "mine", hp |-> 60, max_hp |-> 100]
BuildingLists == {<<>>, <<Turret>>, <<Turret, Gate>>, <<DamagedGate, Mine>>}

\* the 'world_chunk_buildings_update' handler
MsgBuildingsUpdate ==
    \E k \in {<<2, 3>>, <<0, 1>>}, bl \in BuildingLists :
      LET data == [chunk_x |-> k[1], chunk_y |-> k[2], buildings |-> bl]
      IN /\ IF worldGame
            THEN SetChunkState(UpdateChunkBuildings(ChunkState, data))
            ELSE UNCHANGED <<sceneReady, pendingChunks, chunks, sprites, textures,
                             turretBarrels, gateSprites>>
         /\ UNCHANGED <<transportVars, fingers, baseVars>>
         /\ sentBuildings' = Put(sentBuildings, k, bl)
         /\ lastOp' = [op |-> "world_chunk_buildings_update", sock |-> NULL, arg |-> data]
         /\ invoked' = <<>> /\ emitted' = <<>> /\ escaped' = FALSE
         /\ UNCHANGED <<connVars, histVars, inputVars, mgrVars, worldGame, players, zombies,
                        projectiles, handles, lastSnap, pendingWorldChunks, delivered,
                        unloaded>>

\* ----------------------------------------------------------------- Init
\* the WebSocketManager constructor
InitConn ==
    /\ ws = NULL
    /\ socks = <<>>
    /\ timers = <<>>
    /\ reconnectAttempts = 0
    /\ listeners = <<>>
    /\ wire = <<>>
    /\ lastOp = NoOp
    /\ invoked = <<>> /\ emitted = <<>> /\ escaped = FALSE
    /\ explicitCalls = 0
    /\ disconnected = FALSE
    /\ schedSinceOpen = 0

\* window.VELLA before a world is entered
InitWorld ==
    /\ worldGame = FALSE
    /\ sceneReady = FALSE
    /\ players = <<>>
    /\ zombies = <<>>
    /\ projectiles = <<>>
    /\ handles = <<>>
    /\ lastSnap = [players |-> {}, zombies |-> {}, projectiles |-> {}]
    /\ pendingWorldChunks = [set |-> FALSE, items |-> <<>>]
    /\ pendingChunks = <<>>
    /\ chunks = <<>>
    /\ turretBarrels = [set |-> FALSE, map |-> <<>>]
    /\ gateSprites = [set |-> FALSE, map |-> <<>>]
    /\ sprites = <<>>
    /\ textures = {}
    /\ delivered = <<>>
    /\ unloaded = {}
    /\ keys = {}
    /\ joystick = NoJoystick
    /\ aimAngle = AimUp
    /\ lastAim = NoAim
    /\ inputSeq = 0
    /\ sentAim = FALSE
    /\ game = FALSE
    /\ kbListening = FALSE
    /\ inputTimer = FALSE
    /\ groundDrops = {}
    /\ orphans = 0

\* the null of BaseManager's _pending and _active
NoDrag == [mode |-> "null"]

\* no transport has been created
InitApp ==
    /\ transports = <<>>
    /\ current = NULL
    /\ sentOn = <<>>
    /\ screen = "menu"
    /\ sentBuildings = <<>>
    /\ fingers = [left |-> {}, right |-> {}]
    /\ bmPending = NoDrag /\ bmActive = NoDrag /\ ghosts = 0

Init == InitConn /\ InitWorld /\ InitApp

\* a ready scene that shows one entity, the own player or a zombie, created
\* at s by one snapshot and given the target t by the next
MaxPos == 12        \* positions lie in -MaxPos .. MaxPos
InitLerp ==
    /\ InitConn /\ InitApp
    /\ \E s \in -MaxPos..MaxPos, t \in -MaxPos..MaxPos, class \in {"player", "zombie"} :
         LET none == [store |-> <<>>, live |-> <<>>]
             pd(x) == [id |-> myId, x |-> x, armor |-> 0, is_dead |-> FALSE]
             zd(x) == [id |-> 12, x |-> x, type |-> "normal"]
             p == IF class = "player"
                  THEN UpdatePlayer(CreatePlayer(none, pd(s)), pd(t)) ELSE none
             z == IF class = "zombie"
                  THEN UpdateZombie(CreateZombie([store |-> <<>>, live |-> p.live], zd(s)), zd(t))
                  ELSE [store |-> <<>>, live |-> p.live]
         IN /\ players = p.store
            /\ zombies = z.store
            /\ handles = z.live
            /\ lastSnap = [players |-> IF class = "player" THEN {myId} ELSE {},
                           zombies |-> IF class = "zombie" THEN {12} ELSE {},
                           projectiles |-> {}]
    /\ worldGame = TRUE
    /\ sceneReady = TRUE
    /\ projectiles = <<>>
    /\ pendingWorldChunks = [set |-> FALSE, items |-> <<>>]
    /\ pendingChunks = <<>>
    /\ chunks = <<>>
    /\ turretBarrels = [set |-> FALSE, map |-> <<>>]
    /\ gateSprites = [set |-> TRUE, map |-> <<>>]
    /\ sprites = <<>>
    /\ textures = {}
    /\ delivered = <<>>
    /\ unloaded = {}
    /\ keys = {}
    /\ joystick = NewDualJoystick
    /\ aimAngle = AimUp
    /\ lastAim = NoAim
    /\ inputSeq = 0
    /\ sentAim = FALSE
    /\ game = TRUE
    /\ kbListening = TRUE
    /\ inputTimer = TRUE
    /\ groundDrops = {}
    /\ orphans = 0

\* render frames with the target held
SpecLerp == InitLerp /\ [][Frame]_vars

\* ------------------------------------------------------- specifications
NextConn == Connect \/ TimerFire \/ SockOpen \/ SockClose \/ SockError \/ Disconnect \/ Send
SpecConn == Init /\ [][NextConn]_vars

\* one 'close' listener, the connection life cycle without disconnect()
FirstOnClose == "close" \notin DOMAIN listeners /\ OnClose
NextClose == FirstOnClose \/ Connect \/ TimerFire \/ SockOpen \/ SockClose
SpecClose == Init /\ [][NextClose]_vars

\* the server answers enter_world once: one manager per run
WorldEnteredOnce == ~worldGame /\ MsgWorldEntered

NextEnt == WorldEnteredOnce \/ SceneCreate \/ MsgWorldState
SpecEnt == Init /\ [][NextEnt]_vars

NextLoads == WorldEnteredOnce \/ SceneCreate \/ MsgChunkLoad
SpecLoads == Init /\ [][NextLoads]_vars

NextStream == WorldEnteredOnce \/ SceneCreate \/ MsgChunkLoad \/ MsgChunkUnload
SpecStream == Init /\ [][NextStream]_vars

\* one chunk is loaded, then its buildings are updated or it is unloaded
FirstChunkLoad == delivered = <<>> /\ MsgChunkLoad
NextBuild ==
    WorldEnteredOnce \/ SceneCreate \/ FirstChunkLoad \/ MsgBuildingsUpdate \/ MsgChunkUnload
SpecBuild == Init /\ [][NextBuild]_vars

\* loads and unloads that arrive once the scene is ready
ReadyChunkLoad == sceneReady /\ MsgChunkLoad
NextReload == WorldEnteredOnce \/ SceneCreate \/ ReadyChunkLoad \/ MsgChunkUnload
SpecReload == Init /\ [][NextReload]_vars

\* snapshots and single update calls
NextCalls == WorldEnteredOnce \/ SceneCreate \/ MsgWorldState \/ CallUpdate
SpecCalls == Init /\ [][NextCalls]_vars

\* snapshots with positions
NextSync == WorldEnteredOnce \/ SceneCreate \/ MsgWorldStateAt
SpecSync == Init /\ [][NextSync]_vars

NextFrame == WorldEnteredOnce \/ SceneCreate \/ MsgWorldStateAt \/ Frame
SpecFrame == Init /\ [][NextFrame]_vars

\* one connection, no closures: the event bus on its own
BusConnect == Len(socks) = 0 /\ Connect
NextBus == On \/ Off \/ BusConnect \/ SockOpen \/ Message
SpecBus == Init /\ [][NextBus]_vars

\* one manager and one connection: keyboard, touch and input ticks
NextInput ==
    \/ WorldEnteredOnce \/ SceneCreate \/ BusConnect \/ SockOpen
    \/ KeyDown \/ KeyUp \/ TouchStart \/ TouchMove \/ TouchEnd \/ SendInput
SpecInput == Init /\ [][NextInput]_vars

\* one manager from its creation to destroy(): the handlers run while its
\* game runs, the keyboard and the input timer while they are registered
LiveWorldState == game /\ MsgWorldStateDrops
LiveChunkLoad == game /\ delivered = <<>> /\ MsgChunkLoad
FirstKeyDown == keys = {} /\ KeyDown
NextTeardown ==
    \/ WorldEnteredOnce \/ SceneCreate \/ BusConnect \/ SockOpen
    \/ LiveWorldState \/ LiveChunkLoad \/ FirstKeyDown \/ SendInput \/ Destroy
SpecTeardown == Init /\ [][NextTeardown]_vars

\* input ticks across closures and automatic reconnects of one connection
NextSeq ==
    \/ WorldEnteredOnce \/ SceneCreate \/ BusConnect \/ TimerFire \/ SockOpen
    \/ SockClose \/ SendInput
SpecSeq == Init /\ [][NextSeq]_vars

\* touch input with at most one key held at a time
NextTouch ==
    \/ WorldEnteredOnce \/ SceneCreate \/ BusConnect \/ SockOpen
    \/ FirstKeyDown \/ KeyUp \/ TouchStart \/ TouchMove \/ TouchEnd \/ SendInput
SpecTouch == Init /\ [][NextTouch]_vars

\* the loop takes the next frame or timer callback when no handler runs
LoopFrame == ~Running /\ Frame
LoopSendInput == ~Running /\ SendInput

\* the event loop: snapshots in parts, render frames, input ticks
NextLoop ==
    \/ WorldEnteredOnce \/ SceneCreate \/ UpdateStatePlayers \/ UpdateStateZombies
    \/ UpdateStateProjectiles \/ LoopFrame \/ LoopSendInput
SpecLoop == Init /\ [][NextLoop]_vars

\* ================================================================ claims
LiveSockets == {s \in 1..Len(socks) : socks[s] \in {"CONNECTING", "OPEN"}}

\* ws.onopen with the 'open' listener of enterWorld registered: the listener
\* sends enter_world through send()
OpenSendsEnter ==
    \E s \in 1..Len(socks) :
      /\ socks[s] = "CONNECTING"
      /\ socks' = [socks EXCEPT ![s] = "OPEN"]
      /\ reconnectAttempts' = 0
      /\ wire' = IF ws # NULL /\ socks'[ws] = "OPEN"
                 THEN Append(wire, <<ws, "enter_world">>) ELSE wire
      /\ invoked' = Tagged("open", <<"sendEnterWorld">>)
      /\ escaped' = FALSE
      /\ emitted' = <<"open">>
      /\ schedSinceOpen' = 0
      /\ UNCHANGED appVars
      /\ lastOp' = [op |-> "onopen", sock |-> NULL, arg |-> "none"]
      /\ UNCHANGED <<ws, timers, listeners, explicitCalls, disconnected, worldVars>>

\* the server answers the enter_world it has just received on the open
\* socket: 'world_entered' is the next message handled
ServerEntered ==
    /\ lastOp.op = "onopen" /\ IsConnected
    /\ wire # <<>> /\ wire[Len(wire)] = <<ws, "enter_world">>
    /\ MsgWorldEntered

\* enterWorld, the reconnects of the WebSocketManager and the answers of
\* the server
NextEnter ==
    BusConnect \/ TimerFire \/ OpenSendsEnter \/ SockClose \/ ServerEntered \/ SceneCreate
SpecEnter == Init /\ [][NextEnter]_vars

\* resident chunks under snapshots, frames, input ticks and the chunk
\* instructions
ResidentChunkLoad ==
    /\ sceneReady /\ Len(delivered) < MaxLoads - 1
    /\ MsgChunkLoad
    /\ delivered'[Len(delivered')].data.seed = 5
ResidentBuildingsUpdate ==
    /\ MsgBuildingsUpdate
    /\ ChunkKey(lastOp'.arg.chunk_x, lastOp'.arg.chunk_y) \in DOMAIN chunks
NextResident ==
    WorldEnteredOnce \/ SceneCreate \/ ResidentChunkLoad \/ MsgChunkUnload
    \/ ResidentBuildingsUpdate \/ MsgWorldStateGates \/ Frame \/ SendInput
SpecResident == Init /\ [][NextResident]_vars

\* ================================================= application transports
MaxTransports == 2  \* WebSocketManagers the application creates in a run
MaxTSocks == 2      \* sockets one of them creates in a run

\* new WebSocketManager(url)
NewTransport(kind) == [kind |-> kind, ws |-> NULL, socks |-> <<>>, timers |-> 0, attempts |-> 0]

\* connect() on the transport tr
TConnect(tr) ==
    IF tr.ws # NULL /\ tr.socks[tr.ws] = "OPEN" THEN tr
    ELSE [tr EXCEPT !.socks = Append(tr.socks, "CONNECTING"), !.ws = Len(tr.socks) + 1]

\* disconnect() on the transport tr
TDisconnect(tr) ==
    [tr EXCEPT !.attempts = maxReconnectAttempts,
               !.socks = IF tr.ws # NULL /\ tr.socks[tr.ws] \in {"CONNECTING", "OPEN"}
                         THEN [tr.socks EXCEPT ![tr.ws] = "CLOSING"] ELSE tr.socks,
               !.ws = NULL]

\* a transport with a connecting or open socket or a pending reconnect
TLive(tr) ==
    tr.timers > 0 \/ \E s \in DOMAIN tr.socks : tr.socks[s] \in {"CONNECTING", "OPEN"}

\* what a step of the application leaves alone and reports
AppStep(op, arg) ==
    /\ lastOp' = [op |-> op, sock |-> NULL, arg |-> arg]
    /\ invoked' = <<>> /\ emitted' = <<>>
    /\ UNCHANGED <<connVars, histVars, worldVars, sentBuildings, fingers, baseVars>>

\* createRoom / joinRoom / enterWorld: a new transport becomes
\* window.VELLA.ws, its 'open' listener and handlers are registered, connect()
StartTransport(kind, op) ==
    /\ Len(transports) < MaxTransports
    /\ transports' = Append(transports, TConnect(NewTransport(kind)))
    /\ current' = Len(transports) + 1
    /\ screen' = IF kind = "room" THEN "lobby" ELSE "world"
    /\ escaped' = FALSE
    /\ UNCHANGED sentOn
    /\ AppStep(op, kind)

\* the menu buttons
MenuStart == screen = "menu" /\ \E kind \in {"room", "world"} : StartTransport(kind, "start")

\* btn-play-again: hideScreen('gameover-screen'); joinRoom(null)
PlayAgain == screen = "gameover" /\ StartTransport("room", "playAgain")

\* btn-back-menu
BackToMenu ==
    /\ screen = "gameover"
    /\ screen' = "menu"
    /\ escaped' = FALSE
    /\ UNCHANGED <<transports, current, sentOn>>
    /\ AppStep("backMenu", "none")

\* 'game_over' arrives on a room transport: endGame(data)
GameOver ==
    \E t \in DOMAIN transports :
      /\ transports[t].kind = "room"
      /\ \E s \in DOMAIN transports[t].socks : transports[t].socks[s] = "OPEN"
      /\ screen \in {"lobby", "gameover"}
      /\ screen' = "gameover"
      /\ escaped' = FALSE
      /\ UNCHANGED <<transports, current, sentOn>>
      /\ AppStep("game_over", t)

\* leaveRoom / leaveWorld
Leave ==
    /\ screen \in {"lobby", "world"}
    /\ transports' = IF current # NULL
                     THEN [transports EXCEPT ![current] = TDisconnect(transports[current])]
                     ELSE transports
    /\ current' = NULL
    /\ screen' = "menu"
    /\ escaped' = FALSE
    /\ UNCHANGED sentOn
    /\ AppStep("leave", "none")

\* ws.onopen of a socket of transport t: the 'open' listener sends through
\* window.VELLA.ws
TransportOpen ==
    \E t \in DOMAIN transports : \E s \in DOMAIN transports[t].socks :
      /\ transports[t].socks[s] = "CONNECTING"
      /\ transports' = [transports EXCEPT ![t].socks[s] = "OPEN", ![t].attempts = 0]
      /\ sentOn' = IF /\ current # NULL
                      /\ transports'[current].ws # NULL
                      /\ transports'[current].socks[transports'[current].ws] = "OPEN"
                   THEN Append(sentOn, [by |-> t, on |-> current])
                   ELSE sentOn
      /\ escaped' = (current = NULL)
      /\ UNCHANGED <<current, screen>>
      /\ AppStep("t_onopen", t)

\* ws.onclose of a socket of transport t
TransportClose ==
    \E t \in DOMAIN transports : \E s \in DOMAIN transports[t].socks :
      /\ transports[t].socks[s] \in {"CONNECTING", "OPEN", "CLOSING"}
      /\ transports' =
           [transports EXCEPT
              ![t] = IF transports[t].attempts < maxReconnectAttempts
                     THEN [transports[t] EXCEPT !.socks[s] = "CLOSED",
                                                !.attempts = transports[t].attempts + 1,
                                                !.timers = transports[t].timers + 1]
                     ELSE [transports[t] EXCEPT !.socks[s] = "CLOSED"]]
      /\ escaped' = FALSE
      /\ UNCHANGED <<current, sentOn, screen>>
      /\ AppStep("t_onclose", t)

\* setTimeout(() => this.connect(), ...) of transport t fires
TransportTimer ==
    \E t \in DOMAIN transports :
      /\ transports[t].timers > 0
      /\ Len(transports[t].socks) < MaxTSocks
      /\ transports' = [transports EXCEPT
                          ![t] = TConnect([transports[t] EXCEPT !.timers = transports[t].timers - 1])]
      /\ escaped' = FALSE
      /\ UNCHANGED <<current, sentOn, screen>>
      /\ AppStep("t_timer", t)

NextApp ==
    MenuStart \/ PlayAgain \/ BackToMenu \/ GameOver \/ Leave
    \/ TransportOpen \/ TransportClose \/ TransportTimer
SpecApp == Init /\ [][NextApp]_vars

\* every chunk is loaded once, its buildings are updated at any time
OnceChunkLoad ==
    /\ MsgChunkLoad
    /\ ChunkKey(delivered'[Len(delivered')].data.chunk_x,
                delivered'[Len(delivered')].data.chunk_y) \notin DOMAIN sentBuildings
    /\ delivered'[Len(delivered')].data.seed = 5
NextLatest == WorldEnteredOnce \/ SceneCreate \/ OnceChunkLoad \/ MsgBuildingsUpdate
SpecLatest == Init /\ [][NextLatest]_vars

\* snapshots in which lists are missing
NextPartial == WorldEnteredOnce \/ SceneCreate \/ MsgWorldStatePartial
SpecPartial == Init /\ [][NextPartial]_vars

\* ------------------------------------------------ base editor drags
\* BaseManager keeps _pending (a pointer went down, the drag threshold is not
\* passed yet) and _active (the drag runs and owns a ghost element); ghosts
\* counts the .drag-ghost elements in the document.  Pointers move along
\* the top edge of the canvas, whose left edge is client x = 0.  The menu
\* buttons hand every pointermove and pointerup over them to _pointerMove
\* and _pointerUp, so both run in any state.
GRID_SIZE == 16
CELL_SIZE == 40
DRAG_THRESHOLD == 8
MaxGhosts == 2      \* ghost elements in the document
ClientXs == {-20, 0, 4, 50, 90}

ClientToGrid(clientX) ==
    [gx |-> clientX \div CELL_SIZE,
     inside |-> clientX >= 0 /\ clientX < GRID_SIZE * CELL_SIZE]

BaseStep(op, arg) ==
    /\ lastOp' = [op |-> op, sock |-> NULL, arg |-> arg]
    /\ invoked' = <<>> /\ emitted' = <<>> /\ escaped' = FALSE
    /\ UNCHANGED <<connVars, histVars, worldVars, transportVars, sentBuildings, fingers>>

\* _startPending(mode, clientX, clientY, extra)
StartPending(mode, x) ==
    /\ bmPending' = [mode |-> mode, startX |-> x]
    /\ bmActive' = NoDrag
    /\ UNCHANGED ghosts

\* pointerdown on a build-menu button
MenuPointerDown ==
    \E x \in ClientXs :
      /\ StartPending("menu", x)
      /\ BaseStep("menudown", x)

\* _canvasPointerDown(e) on a cell that holds a building
CanvasPointerDown ==
    \E x \in ClientXs :
      /\ ClientToGrid(x).inside
      /\ ClientToGrid(x).gx >= 0 /\ ClientToGrid(x).gx < GRID_SIZE
      /\ StartPending("move", x)
      /\ BaseStep("canvasdown", x)

\* _pointerMove(e)
PointerMove ==
    \E x \in ClientXs :
      /\ IF bmPending # NoDrag /\ bmActive = NoDrag
         THEN IF Abs(x - bmPending.startX) < DRAG_THRESHOLD
              THEN UNCHANGED baseVars
              ELSE /\ ghosts < MaxGhosts
                   /\ ghosts' = ghosts + 1
                   /\ bmActive' = [mode |-> bmPending.mode, previewX |-> -1]
                   /\ bmPending' = NoDrag
         ELSE IF bmActive = NoDrag
         THEN UNCHANGED baseVars
         ELSE LET g == ClientToGrid(x)
              IN /\ bmActive' = IF g.inside /\ g.gx >= 0 /\ g.gx < GRID_SIZE
                                THEN [bmActive EXCEPT !.previewX = g.gx]
                                ELSE [bmActive EXCEPT !.previewX = -1]
                 /\ UNCHANGED <<bmPending, ghosts>>
      /\ BaseStep("pointermove", x)

\* _pointerUp(e)
PointerUp ==
    /\ IF bmActive # NoDrag
       THEN /\ ghosts' = ghosts - 1
            /\ bmActive' = NoDrag
            /\ UNCHANGED bmPending
       ELSE /\ bmPending' = NoDrag
            /\ UNCHANGED <<bmActive, ghosts>>
    /\ BaseStep("pointerup", NULL)

\* destroy()
BaseDestroy ==
    /\ ghosts' = IF bmActive # NoDrag THEN ghosts - 1 ELSE ghosts
    /\ bmActive' = NoDrag
    /\ bmPending' = NoDrag
    /\ BaseStep("basedestroy", NULL)

\* pointer events on the base editor
NextBase == MenuPointerDown \/ CanvasPointerDown \/ PointerMove \/ PointerUp \/ BaseDestroy
SpecBase == Init /\ [][NextBase]_vars

\* touches of several fingers on the joystick zones
NextFingers == WorldEnteredOnce \/ SceneCreate \/ FingerStart \/ FingerMove \/ FingerEnd
SpecFingers == Init /\ [][NextFingers]_vars

\* C1: once the scene is ready, after every updateState the keys of each
\* store are exactly the ids of that class in the snapshot just handled.
C1_IdsMatchSnapshot ==
    sceneReady =>
      /\ DOMAIN players = {ToKey(i) : i \in lastSnap.players}
      /\ DOMAIN zombies = {ToKey(i) : i \in lastSnap.zombies}
      /\ DOMAIN projectiles = {ToKey(i) : i \in lastSnap.projectiles}

C1_Witness ==
    /\ lastOp.op = "world_state"
    /\ lastOp.arg = "some"
    /\ DOMAIN players = {<<1, 2>>}
    /\ DOMAIN zombies = {<<7>>}

\* C2: after disconnect() the transport never opens a socket on its own: no
\* connect() fired by the reconnect timer creates a socket (so no 'open'
\* event of such a socket follows), until the application calls connect()
\* again.
C2_NoAutoConnectAfterDisconnect ==
    [][disconnected =>
         ~(lastOp'.op = "connect" /\ lastOp'.arg = "timer" /\ lastOp'.sock # NULL)]_vars

\* the display objects the stores hold
OwnedHandles ==
    UNION {{[class |-> "player", id |-> ParseInt(k), kind |-> kd] :
              kd \in {"sprite", "aimLine", "nameText", "healthBar"}
                     \cup (IF players[k].armorRing THEN {"armorRing"} ELSE {})} :
           k \in DOMAIN players}
    \cup
    UNION {{[class |-> "zombie", id |-> ParseInt(k), kind |-> kd] :
              kd \in {"sprite", "indicator"}
                     \cup (IF zombies[k].healthBar THEN {"healthBar"} ELSE {})} :
           k \in DOMAIN zombies}
    \cup
    {[class |-> "projectile", id |-> ParseInt(k), kind |-> "sprite"] : k \in DOMAIN projectiles}

\* C3: for load instructions only, whatever part of them arrived before
\* the manager existed or before the scene was ready, the ready scene holds
\* the chunks that the same instructions give when applied in order to a
\* ready scene, and both buffers are empty.
C3_BufferedLoadsEquivalent ==
    sceneReady =>
      LET ref == LoadAll([sceneReady |-> TRUE, pendingChunks |-> <<>>, chunks |-> <<>>,
                          sprites |-> <<>>, textures |-> {},
                          turretBarrels |-> [set |-> FALSE, map |-> <<>>],
                          gateSprites |-> [set |-> TRUE, map |-> <<>>]],
                         [i \in 1..Len(delivered) |-> delivered[i].data])
      IN /\ chunks = ref.chunks
         /\ sprites = ref.sprites
         /\ textures = ref.textures
         /\ pendingChunks = <<>>
         /\ pendingWorldChunks.items = <<>>

C3_Witness ==
    /\ sceneReady
    /\ lastOp.op = "create"
    /\ Len(delivered) = 2
    /\ delivered[1].phase = "nomanager"
    /\ delivered[2].phase = "notready"
    /\ delivered[1].data.chunk_x = delivered[2].data.chunk_x
    /\ delivered[1].data.seed # delivered[2].data.seed
    /\ DOMAIN chunks = {<<2, 3>>}

\* C4: a key whose last instruction is an unload has, once the scene is
\* ready, no chunk, no texture and no display object.
C4_UnloadedNotResident ==
    sceneReady =>
      \A k \in unloaded :
        /\ k \notin DOMAIN chunks
        /\ k \notin textures
        /\ \A h \in DOMAIN sprites : h.chunk # k

\* C5: the live display objects are exactly those of the entities in the
\* stores, one of each: a removal destroys all of its entity's objects.
C5_NoLeakedHandles ==
    /\ DOMAIN handles = OwnedHandles
    /\ \A h \in DOMAIN handles : handles[h] = 1

C5_Witness ==
    /\ lastOp.op = "world_state"
    /\ lastOp.arg = "ring"
    /\ DOMAIN players = {<<1, 2>>}
    /\ players[<<1, 2>>].armorRing

\* C6: without an open in between at most maxReconnectAttempts reconnects
\* are scheduled; a closure in the exhausted state schedules nothing, and a
\* send() there transmits nothing and raises nothing.
C6_BoundedReconnect ==
    /\ [](schedSinceOpen <= 5)
    /\ [][(schedSinceOpen = 5 /\ lastOp'.op = "onclose") => timers' = timers]_vars
    /\ [][(schedSinceOpen = 5 /\ LiveSockets = {} /\ lastOp'.op = "send")
            => (wire' = wire /\ escaped' = FALSE)]_vars

C6_Witness ==
    /\ lastOp.op = "send"
    /\ schedSinceOpen = 5
    /\ Len(socks) > 5
    /\ \A s \in 1..Len(socks) : socks[s] = "CLOSED"
    /\ timers = <<>>

\* C7: send(data) transmits data only on a socket that is OPEN at the call;
\* otherwise the message is dropped for good and no field of the transport
\* changes.
C7_SendOnlyWhenOpen ==
    [][/\ (wire' # wire =>
             /\ lastOp'.op = "send"
             /\ ws # NULL /\ socks[ws] = "OPEN"
             /\ wire' = Append(wire, <<ws, lastOp'.arg>>))
       /\ ((lastOp'.op = "send" /\ ~(ws # NULL /\ socks[ws] = "OPEN")) =>
             UNCHANGED <<wire, ws, socks, timers, reconnectAttempts, listeners>>)]_vars

C7_Witness ==
    /\ lastOp.op = "send"
    /\ ws # NULL /\ socks[ws] = "CONNECTING"
    /\ Len(wire) = 1

\* C8: a manager never has two sockets that are connecting or open.
C8_AtMostOneLiveSocket == Cardinality(LiveSockets) <= 1

\* C9: a message with tag T runs every callback registered for T, once per
\* registration and in registration order; callbacks of other tags do not
\* run.
C9_AllHandlersRun ==
    [][(lastOp'.op = "onmessage" /\ JSONParse(lastOp'.arg).ok /\ ~JSONParse(lastOp'.arg).isNull) =>
         LET T == JSONParse(lastOp'.arg).type
         IN invoked' = IF T \in DOMAIN listeners
                       THEN [i \in 1..Len(listeners[T]) |-> [event |-> T, cb |-> listeners[T][i]]]
                       ELSE <<>>]_vars

\* C10: a payload that JSON.parse rejects runs no callback, lets no
\* exception out of onmessage and changes no field of the transport; the
\* socket stays open, so the next message is dispatched under its tag.
C10_BadPayloadDropped ==
    /\ [][(lastOp'.op = "onmessage" /\ lastOp'.arg = "{\"type\":") =>
            /\ invoked' = <<>>
            /\ escaped' = FALSE
            /\ UNCHANGED <<ws, socks, timers, reconnectAttempts, listeners, wire>>]_vars
    /\ [][(lastOp.op = "onmessage" /\ lastOp.arg = "{\"type\":" /\ lastOp'.op = "onmessage"
             /\ lastOp'.arg = "{\"type\":\"world_state\"}") =>
            emitted' = <<"world_state">>]_vars

C10_Witness ==
    /\ lastOp.op = "onmessage"
    /\ lastOp.arg = "{\"type\":"
    /\ "world_state" \in DOMAIN listeners
    /\ Len(listeners["world_state"]) = 2

\* C11: handling the same snapshot twice in a row leaves the entity stores
\* as the first call left them (ids, stored data, targets, display state).
C11_ReconcileIdempotent ==
    [][(/\ lastOp.op = "world_state" /\ lastOp'.op = "world_state"
        /\ lastOp'.arg = lastOp.arg
        /\ sceneReady) =>
         /\ players' = players
         /\ zombies' = zombies
         /\ projectiles' = projectiles
         /\ handles' = handles]_vars

\* C12: a snapshot never changes the render position of an entity that was
\* already in the store; only creation sets it.
C12_NoJumpAfterCreation ==
    [][lastOp'.op = "world_state" =>
         /\ \A k \in DOMAIN players \cap DOMAIN players' :
              players'[k].spriteX = players[k].spriteX
         /\ \A k \in DOMAIN zombies \cap DOMAIN zombies' :
              zombies'[k].spriteX = zombies[k].spriteX
         /\ \A k \in DOMAIN projectiles \cap DOMAIN projectiles' :
              projectiles'[k].spriteX = projectiles[k].spriteX]_vars

\* C13: a render frame moves every player and every zombie one
\* interpolation step toward its target, whatever the store holds.
C13_EveryEntityStepped ==
    [][lastOp'.op = "update" =>
         /\ \A k \in DOMAIN players :
              players'[k].spriteX = Linear(players[k].spriteX, players[k].targetX, 20)
         /\ \A k \in DOMAIN zombies :
              zombies'[k].spriteX = Linear(zombies[k].spriteX, zombies[k].targetX, 15)]_vars

\* C14: when a keyboard movement, aim or fire key is held at a tick, every
\* field of the command is the keyboard-derived value, whatever the
\* joystick state: move is the WASD vector, aim the arrow-key angle,
\* shooting the Slash key.
C14_KeyboardOverridesJoystick ==
    [][(/\ lastOp'.op = "sendInput"
        /\ keys \cap {"KeyW", "KeyA", "KeyS", "KeyD", "ArrowLeft", "ArrowRight",
                      "ArrowUp", "ArrowDown", "Slash"} # {}) =>
         /\ lastOp'.arg.move_x = KbMove.x
         /\ lastOp'.arg.move_y = KbMove.y
         /\ lastOp'.arg.aim_x = Cos(KbAimAngle)
         /\ lastOp'.arg.aim_y = Sin(KbAimAngle)
         /\ lastOp'.arg.shooting = ("Slash" \in keys)]_vars

\* C15: once a command with a non-zero aim was sent, every later command
\* carries a non-zero aim.
C15_AimNeverSnapsToZero ==
    [][(sentAim /\ lastOp'.op = "sendInput") =>
         (lastOp'.arg.aim_x # 0 \/ lastOp'.arg.aim_y # 0)]_vars

\* C16: a buildings-update for a resident chunk leaves the chunk with the
\* new list and with exactly the sprites of the new list, each once; no
\* sprite of the chunk and no registry entry refers to a building of the old
\* list that is not in the new one, and a turret of the new list is
\* registered with its new barrel (the old entries are removed first).
C16_BuildingsReplaced ==
    [][(/\ lastOp'.op = "world_chunk_buildings_update"
        /\ worldGame
        /\ ChunkKey(lastOp'.arg.chunk_x, lastOp'.arg.chunk_y) \in DOMAIN chunks) =>
         LET key == ChunkKey(lastOp'.arg.chunk_x, lastOp'.arg.chunk_y)
             new == lastOp'.arg.buildings
             old == chunks[key].buildings
             newIds == {new[i].id : i \in 1..Len(new)}
             gone == {old[i].id : i \in 1..Len(old)} \ newIds
             made == chunks'[key].buildingSprites
         IN /\ chunks'[key].buildings = new
            /\ {h \in DOMAIN sprites' : h.chunk = key /\ h.part \notin {"terrain", "node", "trash", "trashLabel"}}
                 = {made[i] : i \in 1..Len(made)}
            /\ \A h \in DOMAIN sprites' : h.chunk = key => sprites'[h] = 1
            /\ \A h \in DOMAIN sprites' : h.chunk = key /\ h.part \notin {"terrain", "node", "trash", "trashLabel"}
                                           => h.ref \in newIds
            /\ \A id \in gone : /\ id \notin DOMAIN turretBarrels'.map
                                /\ id \notin DOMAIN gateSprites'.map
            /\ \A i \in 1..Len(new) :
                 new[i].type_code \in {"turret_basic", "turret_heavy"} =>
                   /\ new[i].id \in DOMAIN turretBarrels'.map
                   /\ turretBarrels'.map[new[i].id] = [chunk |-> key, part |-> "barrel", ref |-> new[i].id]]_vars

C16_Witness ==
    /\ lastOp.op = "world_chunk_buildings_update"
    /\ lastOp.arg.buildings = <<[id |-> 2, type_code |-> "gate_wood", hp |-> 40, max_hp |-> 100],
                                [id |-> 3, type_code |-> "mine", hp |-> 60, max_hp |-> 100]>>
    /\ <<2, 3>> \in DOMAIN chunks
    /\ lastOp.arg.chunk_x = 2
    /\ chunks[<<2, 3>>].buildings = lastOp.arg.buildings
    /\ 1 \notin DOMAIN turretBarrels.map
    /\ <<0, 1>> \notin DOMAIN chunks
    /\ \E h \in DOMAIN sprites : h.part = "hp" /\ h.ref = 3

\* C17: every display object of a chunk exists once and belongs to a
\* resident chunk, and a load instruction for a key that is resident in
\* the ready scene changes neither the chunk map, nor the display objects,
\* nor the textures, nor the turret and gate registries.
C17_ResidentLoadIsNoOp ==
    /\ [](\A h \in DOMAIN sprites : sprites[h] = 1 /\ h.chunk \in DOMAIN chunks)
    /\ [][(/\ lastOp'.op = "world_chunk_load"
           /\ sceneReady
           /\ LET data == delivered'[Len(delivered')].data
              IN ChunkKey(data.chunk_x, data.chunk_y) \in DOMAIN chunks)
          => UNCHANGED <<chunks, sprites, textures, turretBarrels, gateSprites,
                         pendingChunks>>]_vars

C17_Witness ==
    /\ lastOp.op = "world_chunk_load"
    /\ Len(delivered) = 2
    /\ delivered[1].phase = "ready"
    /\ delivered[2].phase = "ready"
    /\ delivered[1].data.chunk_x = 2
    /\ delivered[2].data.chunk_x = 2
    /\ delivered[1].data.seed = 5
    /\ delivered[2].data.seed = 0
    /\ delivered[1].data.buildings = <<>>
    /\ delivered[2].data.buildings # <<>>
    /\ DOMAIN chunks = {<<2, 3>>}
    /\ chunks[<<2, 3>>].seed = 5
    /\ chunks[<<2, 3>>].buildings = <<>>

\* C18: an unload instruction for a resident key leaves no display object
\* and no texture of that chunk and removes the key, and only that key,
\* from the chunk map; for a key that is not resident it changes nothing;
\* in neither case is an error raised.
C18_UnloadReleasesChunk ==
    [][(lastOp'.op = "world_chunk_unload" /\ worldGame)
       => LET k == lastOp'.arg
          IN /\ ~escaped'
             /\ IF k \in DOMAIN chunks
                THEN /\ chunks' = [x \in DOMAIN chunks \ {k} |-> chunks[x]]
                     /\ k \notin textures'
                     /\ \A h \in DOMAIN sprites' : h.chunk # k
                     /\ \A h \in DOMAIN sprites :
                          h.chunk # k => h \in DOMAIN sprites' /\ sprites'[h] = sprites[h]
                ELSE UNCHANGED <<chunks, sprites, textures, turretBarrels, gateSprites,
                                 pendingChunks>>]_vars

C18_Witness ==
    /\ lastOp.op = "world_chunk_unload"
    /\ lastOp.arg = <<2, 3>>
    /\ sceneReady
    /\ Len(delivered) = 1
    /\ delivered[1].phase = "ready"
    /\ delivered[1].data.chunk_x = 2
    /\ delivered[1].data.buildings # <<>>
    /\ chunks = <<>>
    /\ sprites = <<>>
    /\ textures = {}

\* C19: when a load instruction m that was applied before arrives again
\* after its key was unloaded, the chunk of that key, its display objects,
\* its texture and the registry entries of its buildings are those a
\* single load of m gives on a ready scene without chunks.
C19_ReloadEqualsLoad ==
    [][(/\ lastOp'.op = "world_chunk_load"
        /\ sceneReady
        /\ LET m == delivered'[Len(delivered')].data
           IN /\ ChunkKey(m.chunk_x, m.chunk_y) \in unloaded
              /\ \E i \in 1..Len(delivered) :
                   delivered[i].data = m /\ delivered[i].phase = "ready")
       => LET m == delivered'[Len(delivered')].data
              key == ChunkKey(m.chunk_x, m.chunk_y)
              ref == LoadChunk([sceneReady |-> TRUE, pendingChunks |-> <<>>,
                                chunks |-> <<>>, sprites |-> <<>>, textures |-> {},
                                turretBarrels |-> [set |-> FALSE, map |-> <<>>],
                                gateSprites |-> [set |-> TRUE, map |-> <<>>]], m)
          IN /\ key \in DOMAIN chunks'
             /\ chunks'[key] = ref.chunks[key]
             /\ key \in textures'
             /\ {h \in DOMAIN sprites' : h.chunk = key} = DOMAIN ref.sprites
             /\ \A h \in DOMAIN ref.sprites : sprites'[h] = ref.sprites[h]
             /\ \A id \in DOMAIN ref.turretBarrels.map :
                  /\ id \in DOMAIN turretBarrels'.map
                  /\ turretBarrels'.map[id] = ref.turretBarrels.map[id]
             /\ \A id \in DOMAIN ref.gateSprites.map :
                  /\ id \in DOMAIN gateSprites'.map
                  /\ gateSprites'.map[id] = ref.gateSprites.map[id]]_vars

C19_Witness ==
    /\ lastOp.op = "world_chunk_load"
    /\ lastOp.arg = "afterUnload"
    /\ Len(delivered) = 2
    /\ delivered[1] = delivered[2]
    /\ delivered[1].phase = "ready"
    /\ delivered[1].data.chunk_x = 2
    /\ delivered[1].data.buildings # <<>>
    /\ unloaded = {}
    /\ DOMAIN chunks = {<<2, 3>>}
    /\ DOMAIN turretBarrels.map = {1}

\* C20: an update call of any entity class for an id that is not in the
\* store of that class ends with the id in that store and raises nothing.
C20_UnknownIdCreated ==
    [][(lastOp'.op = "updateEntity"
        /\ ToKey(lastOp'.arg.id) \notin
             DOMAIN (CASE lastOp'.arg.class = "player" -> players
                       [] lastOp'.arg.class = "zombie" -> zombies
                       [] OTHER -> projectiles))
       => /\ ~escaped'
          /\ ToKey(lastOp'.arg.id) \in
               DOMAIN (CASE lastOp'.arg.class = "player" -> players'
                         [] lastOp'.arg.class = "zombie" -> zombies'
                         [] OTHER -> projectiles')]_vars

\* C21: in the calls one updateState makes for a class, every create and
\* update comes before every remove, each element of the snapshot's list
\* gets one create or update in list order, no removed id occurs in the
\* list, and the calls in that order give the store the handler leaves.
C21_UpsertsBeforeRemovals ==
    [][(lastOp'.op = "world_state" /\ sceneReady)
       => \A class \in {"player", "zombie", "projectile"} :
            LET store == CASE class = "player" -> players
                           [] class = "zombie" -> zombies
                           [] OTHER -> projectiles
                after == CASE class = "player" -> players'
                           [] class = "zombie" -> zombies'
                           [] OTHER -> projectiles'
                list == CASE class = "player" -> lastOp'.arg.players
                          [] class = "zombie" -> lastOp'.arg.zombies
                          [] OTHER -> lastOp'.arg.projectiles
                st == [store |-> store, live |-> handles]
                tr == ReconcileTrace(class, st, list)
            IN /\ Len(tr) >= Len(list)
               /\ \A i \in 1..Len(tr) :
                    IF i <= Len(list)
                    THEN tr[i].op \in {"create", "update"} /\ tr[i].id = list[i].id
                    ELSE tr[i].op = "remove" /\ tr[i].id \notin ActiveIds(list)
               /\ Replay(class, st, tr).store = after]_vars

C21_Witness ==
    /\ lastOp.op = "world_state"
    /\ sceneReady
    /\ lastOp.arg.removal = "some"
    /\ Len(lastOp.arg.players) = 1
    /\ lastOp.arg.players[1].id = 12
    /\ DOMAIN players = {ToKey(12)}

\* C22: destroy() raises nothing in any state of the manager; after it the
\* stores of players, zombies and projectiles, the chunk map and the ground
\* drops are empty, the keyboard handlers are not registered and the input
\* timer does not exist; from then on no key event reaches the manager and
\* no input tick runs, so nothing more is handed to the transport.
C22_DestroyReleasesAll ==
    /\ [][lastOp'.op = "destroy"
          => /\ ~escaped'
             /\ players' = <<>> /\ zombies' = <<>> /\ projectiles' = <<>>
             /\ chunks' = <<>>
             /\ groundDrops' = {}
             /\ ~kbListening'
             /\ ~inputTimer']_vars
    /\ [][(worldGame /\ ~game)
          => /\ lastOp'.op \notin {"sendInput", "inputSkipped", "keydown", "keyup"}
             /\ wire' = wire
             /\ keys' = keys]_vars

C22_Witness ==
    /\ lastOp.op = "destroy"
    /\ lastOp.arg = "again"
    /\ sceneReady
    /\ delivered # <<>>
    /\ inputSeq > 0
    /\ players = <<>>
    /\ chunks = <<>>

C24_CloseOnlyWhenExhausted ==
    [][(lastOp'.op = "onclose" /\ Len(timers') > Len(timers)) => invoked' = <<>>]_vars

\* C25: a render frame moves no entity away from its target and none past
\* it: the distance to the target does not grow and the difference
\* target - render keeps its sign (or becomes zero).
C25_NoOvershoot ==
    [][lastOp'.op = "update"
       => /\ \A k \in DOMAIN players :
               LET d == players[k].targetX - players[k].spriteX
                   e == players'[k].targetX - players'[k].spriteX
               IN /\ players'[k].targetX = players[k].targetX
                  /\ (IF e < 0 THEN -e ELSE e) <= (IF d < 0 THEN -d ELSE d)
                  /\ d * e >= 0
          /\ \A k \in DOMAIN zombies :
               LET d == zombies[k].targetX - zombies[k].spriteX
                   e == zombies'[k].targetX - zombies'[k].spriteX
               IN /\ zombies'[k].targetX = zombies[k].targetX
                  /\ (IF e < 0 THEN -e ELSE e) <= (IF d < 0 THEN -d ELSE d)
                  /\ d * e >= 0]_vars

C25_Witness ==
    /\ lastOp.op = "update"
    /\ DOMAIN players = {ToKey(myId)}
    /\ players[ToKey(myId)].targetX = -10
    /\ players[ToKey(myId)].spriteX = -9

\* C26: a tick at which no key is held sends the move vector of the
\* joystick as it is (zero when there is no joystick yet).
C26_JoystickMoveVerbatim ==
    [][(lastOp'.op = "sendInput" /\ keys = {})
       => /\ lastOp'.arg.move_x = (IF joystick.exists THEN joystick.moveVector.x ELSE 0)
          /\ lastOp'.arg.move_y = (IF joystick.exists THEN joystick.moveVector.y ELSE 0)]_vars

C26_Witness ==
    /\ lastOp.op = "sendInput"
    /\ keys = {}
    /\ joystick.exists
    /\ joystick.moveVector = Vec(50, -50)
    /\ lastOp.arg.move_x = 50
    /\ lastOp.arg.move_y = -50

\* C27: the counter of a manager never decreases, and every command handed
\* to the transport carries the counter after an increment by one, so each
\* seq is larger than every seq handed over before, whatever closures and
\* reconnects lie between the ticks.
C27_SeqStrictlyIncreasing ==
    /\ [][inputSeq' >= inputSeq]_vars
    /\ [][lastOp'.op = "sendInput"
          => /\ inputSeq' = inputSeq + 1
             /\ lastOp'.arg.seq = inputSeq'
             /\ Len(wire') = Len(wire) + 1]_vars
    /\ [][lastOp'.op = "inputSkipped" => (inputSeq' = inputSeq /\ wire' = wire)]_vars

C27_Witness ==
    /\ lastOp.op = "sendInput"
    /\ lastOp.arg.seq = 2
    /\ Len(wire) = 2
    /\ wire[1][1] # wire[2][1]
    /\ reconnectAttempts = 0

\* C28: the k-th reconnect scheduled since construction or the last open
\* (k = 1 .. 5) gets the delay k * 1000 ms, no further one is scheduled,
\* and an open restarts the count, so that the next delay is 1000 ms again.
C28_LinearBackoff ==
    /\ [][(lastOp'.op = "onclose" /\ timers' # timers)
          => /\ schedSinceOpen < 5
             /\ timers' = Append(timers, 1000 * (schedSinceOpen + 1))
             /\ schedSinceOpen' = schedSinceOpen + 1]_vars
    /\ [][lastOp'.op = "onopen" => (schedSinceOpen' = 0 /\ reconnectAttempts' = 0)]_vars

C28_Witness ==
    /\ lastOp.op = "onclose"
    /\ timers = <<1000>>
    /\ Len(socks) = 4
    /\ socks[3] = "CLOSED"
    /\ socks[4] = "CLOSED"
    /\ schedSinceOpen = 1

\* C29: the original statement. A chunk k that is resident before a step
\* other than unloadChunk(k), updateChunkBuildings(k) and destroy() is
\* resident after it with the same record, the same live sprites, its
\* texture, and the same registry entries for its buildings.
C29_BuildingIds(k) == {chunks[k].buildings[i].id : i \in DOMAIN chunks[k].buildings}
C29_OnKey(k) ==
    \/ lastOp'.op = "destroy"
    \/ lastOp'.op = "world_chunk_unload" /\ lastOp'.arg = k
    \/ /\ lastOp'.op = "world_chunk_buildings_update"
       /\ ChunkKey(lastOp'.arg.chunk_x, lastOp'.arg.chunk_y) = k
C29_ChunkKept(k) ==
    /\ k \in DOMAIN chunks' /\ chunks'[k] = chunks[k]
    /\ chunks[k].textureKey \in textures => chunks[k].textureKey \in textures'
    /\ \A sp \in DOMAIN sprites :
         sp.chunk = k => sp \in DOMAIN sprites' /\ sprites'[sp] = sprites[sp]
    /\ \A id \in C29_BuildingIds(k) :
         /\ (id \in DOMAIN turretBarrels.map) = (id \in DOMAIN turretBarrels'.map)
         /\ id \in DOMAIN turretBarrels.map => turretBarrels'.map[id] = turretBarrels.map[id]
         /\ (id \in DOMAIN gateSprites.map) = (id \in DOMAIN gateSprites'.map)
C29_GatesKept(k) ==
    \A id \in C29_BuildingIds(k) \cap DOMAIN gateSprites.map :
      id \in DOMAIN gateSprites'.map /\ gateSprites'.map[id] = gateSprites.map[id]
C29_InstructionIds ==
    CASE lastOp'.op = "world_chunk_load" ->
           LET data == delivered'[Len(delivered')].data
           IN {data.buildings[i].id : i \in DOMAIN data.buildings}
      [] lastOp'.op = "world_chunk_unload" ->
           IF lastOp'.arg \in DOMAIN chunks THEN C29_BuildingIds(lastOp'.arg) ELSE {}
      [] lastOp'.op = "world_chunk_buildings_update" ->
           LET key == ChunkKey(lastOp'.arg.chunk_x, lastOp'.arg.chunk_y)
           IN {lastOp'.arg.buildings[i].id : i \in DOMAIN lastOp'.arg.buildings}
              \cup (IF key \in DOMAIN chunks THEN C29_BuildingIds(key) ELSE {})
      [] OTHER -> {}
C29_GateSpritesKept(k) ==
    \A id \in C29_BuildingIds(k) \cap DOMAIN gateSprites.map :
      /\ id \in DOMAIN gateSprites'.map
      /\ gateSprites'.map[id].sprite = gateSprites.map[id].sprite
      /\ lastOp'.op # "world_state" => gateSprites'.map[id] = gateSprites.map[id]
C30_AtMostOneManager == orphans = 0

\* C31: at most one transport of the application has a connecting or open
\* socket or a pending reconnect, and the 'open' listener of a transport
\* only ever sends on that transport
C31_OneLiveTransport ==
    /\ Cardinality({t \in DOMAIN transports : TLive(transports[t])}) <= 1
    /\ \A i \in DOMAIN sentOn : sentOn[i].by = sentOn[i].on

\* C32: when no building id is listed in two resident chunks, every turret
\* listed in a resident chunk has an entry in the turret-barrel registry
\* that is its own barrel sprite, and that sprite is live
C32_TurretsRegistered ==
    (\A k1, k2 \in DOMAIN chunks :
       k1 # k2 =>
         \A i \in DOMAIN chunks[k1].buildings, j \in DOMAIN chunks[k2].buildings :
           chunks[k1].buildings[i].id # chunks[k2].buildings[j].id)
    => \A k \in DOMAIN chunks : \A i \in DOMAIN chunks[k].buildings :
         LET b == chunks[k].buildings[i]
         IN IsTurret(b) =>
              /\ b.id \in DOMAIN turretBarrels.map
              /\ turretBarrels.map[b.id] = Sprite(k, "barrel", b.id)
              /\ Sprite(k, "barrel", b.id) \in DOMAIN sprites

\* C33: once the scene is ready and the buffered loads are drained, the
\* building list of every resident chunk is the list the server sent last
\* for its key
C33_LatestBuildings ==
    worldGame /\ sceneReady /\ pendingChunks = <<>> /\ pendingWorldChunks.items = <<>>
    => \A k \in DOMAIN chunks : chunks[k].buildings = sentBuildings[k]

\* C34: on the ready scene a world_state message that lacks a list is
\* handled without an exception leaving updateState, and every section it
\* carries is reconciled: the store of each class whose list is present
\* holds exactly the ids of the list, and the ground drops shown are those
\* of the message
C34_PartialSnapshotHandled ==
    lastOp.op = "world_state" /\ worldGame /\ sceneReady
    => /\ ~escaped
       /\ "players" \in lastOp.arg.has
            => {ParseInt(k) : k \in DOMAIN players} = ActiveIds(lastOp.arg.players)
       /\ "zombies" \in lastOp.arg.has
            => {ParseInt(k) : k \in DOMAIN zombies} = ActiveIds(lastOp.arg.zombies)
       /\ "projectiles" \in lastOp.arg.has
            => {ParseInt(k) : k \in DOMAIN projectiles} = ActiveIds(lastOp.arg.projectiles)
       /\ groundDrops = ActiveIds(lastOp.arg.ground_drops)

\* C35: an inbound message, whatever its type field, runs no listener of
\* the lifecycle events 'open', 'close' and 'error'
C35_LifecycleOnlyFromSocket ==
    [][lastOp'.op = "onmessage" =>
         \A i \in DOMAIN invoked' : invoked'[i].event \notin {"open", "close", "error"}]_vars

C37_RegistriesLive ==
    /\ \A id \in DOMAIN turretBarrels.map : turretBarrels.map[id] \in DOMAIN sprites
    /\ \A id \in DOMAIN gateSprites.map : gateSprites.map[id].sprite \in DOMAIN sprites

C37_Witness ==
    /\ lastOp.op = "world_state"
    /\ lastOp.arg.open_gates.present /\ lastOp.arg.open_gates.ids = {2}
    /\ unloaded # {}
    /\ 2 \in DOMAIN gateSprites.map
    /\ gateSprites.map[2].isOpen
    /\ gateSprites.map[2].sprite \in DOMAIN sprites
    /\ 1 \in DOMAIN turretBarrels.map

\* C38: with no touch held in the left zone the move vector is (0, 0), with
\* no touch held in the right zone shooting is false, and the end of a touch
\* never changes the aim vector
C38_IdleZonesAtRest ==
    /\ [](fingers.left = {} => joystick.moveVector = [x |-> 0, y |-> 0])
    /\ [](fingers.right = {} => ~joystick.shooting)
    /\ [][lastOp'.op = "touchend" => joystick'.aimVector = joystick.aimVector]_vars

C38_Witness ==
    /\ lastOp.op = "touchend"
    /\ lastOp.arg.side = "right" /\ ~lastOp.arg.tracked
    /\ fingers.right = {}
    /\ joystick.aimVector # [x |-> 0, y |-> -100]

\* C39: a drag ghost is in the document exactly while a drag is active, at
\* most one at a time, and _pending and _active are never both set
C39_GhostIffActive ==
    /\ ghosts = (IF bmActive # NoDrag THEN 1 ELSE 0)
    /\ ~(bmPending # NoDrag /\ bmActive # NoDrag)

====
